---- MODULE Spec2Model ----
(***************************************************************************)
(* A model of gmail-cli: the Auth Manager (lib/auth.js: token store,       *)
(* getAuthClient, login, logout, checkStatus), the API session and the     *)
(* label resolver (lib/gmail.js).                                          *)
(*                                                                         *)
(* Every CLI invocation is one process: index.js sets the active profile   *)
(* in a preAction hook, then one command runs.  The token files outlive    *)
(* the process; gmailClient and labelCache are module variables and are    *)
(* null again in the next process.                                         *)
(***************************************************************************)
EXTENDS Integers, Sequences, FiniteSets, TLC

(***************************************************************************)
(* Bounds of the model.                                                    *)
(***************************************************************************)
\* Date.now() runs over 1..MaxTime.
MaxTime == 3
\* expires_in of a token response, in clock ticks.
TokenLifetime == 1
\* Requests the callback listener of one login() is seen to handle.
MaxRequests == 2
\* The mailbox holds at most MaxLabels labels.
MaxLabels == 2
\* A message carries at most MaxAttachments attachment paths.
MaxAttachments == 2
\* A payload tree has at most MaxParts parts, the top-level payload included.
MaxParts == 4

Profiles == {"default", "work"}

\* The opaque token strings the provider hands out; "none": the field is absent.
AccessTokens == {"a1"}
RefreshTokens == {"r1"}

VARIABLES
    now,            \* Date.now()
    tokenFile,      \* tokenFile[p]: the content of {CONFIG_DIR}/{p}.token.json
    currentProfile, \* auth.js: let currentProfile
    pc,             \* "idle", "login_wait" while login() awaits the callback,
                    \* "exited" once a send or read command has run
    listening,      \* the callback listener of login() is bound to REDIRECT_PORT
    gmailClient,    \* gmail.js: let gmailClient
    labelCache,     \* gmail.js: let labelCache
    last,           \* the Auth Manager call that has just returned (or the
                    \* login() in progress); NoCall once anything else happened
    lastLabel,      \* the label resolver call that has just returned
    lastMail,       \* the sendEmail()/replyToEmail() call that has just returned
    lastBody,       \* the getMessageBody() call that has just returned
    session,        \* the getGmailClient() call that has just returned, and how
                    \* often getAuthClient() has succeeded in this process
    race            \* two login() processes of one profile: their positions,
                    \* their listeners and the bytes of the token file

vars == <<now, tokenFile, currentProfile, pc, listening, gmailClient, labelCache,
          last, lastLabel, lastMail, lastBody, session, race>>

\* What the Auth Manager and the label resolver leave alone.
mailVars == <<lastMail, lastBody, session, race>>

(***************************************************************************)
(* Tokens and token files.                                                 *)
(*   refresh_token = "none": the token carries no refresh token            *)
(*   expiry_date   = 0: the token carries no expiry_date (falsy in JS)     *)
(***************************************************************************)
Null == [access_token |-> "none", refresh_token |-> "none", expiry_date |-> 0]

AbsentFile == [state |-> "absent", token |-> Null]
CorruptFile == [state |-> "corrupt", token |-> Null]
JsonFile(token) == [state |-> "json", token |-> token]

\* existsSync(tokenFile)
existsSync(file) == file.state # "absent"

\* loadToken(): null when the file is absent or JSON.parse throws.
loadToken(files, profile) ==
    LET file == files[profile] IN
    IF ~existsSync(file) THEN Null
    ELSE IF file.state = "corrupt" THEN Null
    ELSE file.token

\* Mutant of saveToken: one token file shared by all profiles.
saveToken_sharedFile(files, profile, token) ==
    [p \in DOMAIN files |-> JsonFile(token)]

\* saveToken(token): writeFileSync(getTokenFile(), JSON.stringify(token))
saveToken(files, profile, token) ==
    [files EXCEPT ![profile] = JsonFile(token)]

(***************************************************************************)
(* loadConfig() / loadCredentials() / createOAuth2Client(): cfg is what    *)
(* the process finds on disk for the active profile.  The result is the    *)
(* error thrown, or "none".                                                *)
(***************************************************************************)
ConfigStates == {"ok", "no_config_file", "profile_missing", "creds_invalid"}

createOAuth2Client(cfg) ==
    CASE cfg = "no_config_file" -> "ConfigMissing"
      [] cfg = "profile_missing" -> "ProfileNotFound"
      [] cfg = "creds_invalid" -> "CredentialsInvalid"
      [] OTHER -> "none"

(***************************************************************************)
(* The OAuth provider's answer to a token request (refresh or code         *)
(* exchange).                                                              *)
(***************************************************************************)
TokenResponses ==
    {r \in [kind : {"ok", "invalid_grant", "network_error"},
            access : AccessTokens \cup {"none"},
            refresh : RefreshTokens \cup {"none"},
            hasExpiry : BOOLEAN] :
        IF r.kind = "ok" THEN r.access # "none"
        ELSE r.access = "none" /\ r.refresh = "none" /\ ~r.hasExpiry}

\* The answer to a refresh request names no refresh token.
RefreshResponses == {r \in TokenResponses : r.refresh = "none"}

\* No request reaches the provider.
NoResponse ==
    [kind |-> "network_error", access |-> "none", refresh |-> "none",
     hasExpiry |-> FALSE]

\* What one call finds: the configuration on disk and the provider's answer
\* should it ask for a refresh.  With an unusable configuration the client is
\* never built and nothing is asked.
AuthInputs ==
    {i \in [cfg : ConfigStates, resp : RefreshResponses] :
        i.cfg # "ok" => i.resp = NoResponse}

\* users.getProfile / getTokenInfo of a status or login display: which one fails.
Probes == {"ok", "profile_fails", "info_fails"}

StatusInputs ==
    {i \in [cfg : ConfigStates, resp : RefreshResponses, probe : Probes] :
        i.cfg # "ok" => (i.resp = NoResponse /\ i.probe = "ok")}

\* Mutant of refreshAccessToken: the new credentials lose the refresh token.
refreshAccessToken_dropsRefreshToken(token, resp, t) ==
    IF token.refresh_token = "none"
    THEN [ok |-> FALSE, netCalls |-> 0, answer |-> "none", credentials |-> Null]
    ELSE IF resp.kind # "ok"
    THEN [ok |-> FALSE, netCalls |-> 1, answer |-> resp.kind, credentials |-> Null]
    ELSE [ok |-> TRUE, netCalls |-> 1, answer |-> resp.kind,
          credentials |->
              [access_token |-> resp.access,
               refresh_token |-> "none",
               expiry_date |-> IF resp.hasExpiry THEN t + TokenLifetime ELSE 0]]

\* oauth2Client.refreshAccessToken() with the loaded token as credentials
\* (google-auth-library): it throws without a network call when the
\* credentials hold no refresh token; on success the new credentials keep
\* the refresh token that was used.
refreshAccessToken(token, resp, t) ==
    IF token.refresh_token = "none"
    THEN [ok |-> FALSE, netCalls |-> 0, answer |-> "none", credentials |-> Null]
    ELSE IF resp.kind # "ok"
    THEN [ok |-> FALSE, netCalls |-> 1, answer |-> resp.kind, credentials |-> Null]
    ELSE [ok |-> TRUE, netCalls |-> 1, answer |-> resp.kind,
          credentials |->
              [access_token |-> resp.access,
               refresh_token |-> token.refresh_token,
               expiry_date |-> IF resp.hasExpiry THEN t + TokenLifetime ELSE 0]]

\* Mutant of needsRefresh: the comparison is the wrong way round.
needsRefresh_flipped(token, t) == token.expiry_date # 0 /\ token.expiry_date > t

\* token.expiry_date && token.expiry_date < Date.now()
needsRefresh(token, t) == token.expiry_date # 0 /\ token.expiry_date < t

\* Mutant of getAuthClient: the refreshed credentials are not persisted.
getAuthClient_noSave(files, profile, t, cfg, resp) ==
    LET cerr == createOAuth2Client(cfg)
        token == loadToken(files, profile)
        r == refreshAccessToken(token, resp, t)
        fail(e) == [err |-> e, client |-> Null, files |-> files, answer |-> "none",
                    refreshCalls |-> 0, writes |-> 0, netCalls |-> 0]
    IN  IF cerr # "none" THEN fail(cerr)
        ELSE IF token = Null THEN fail("NotAuthenticated")
        ELSE IF needsRefresh(token, t)
        THEN IF r.ok
             THEN [err |-> "none", client |-> r.credentials, files |-> files,
                   answer |-> r.answer, refreshCalls |-> 1, writes |-> 0,
                   netCalls |-> r.netCalls]
             ELSE [err |-> "TokenRefreshError", client |-> Null, files |-> files,
                   answer |-> r.answer, refreshCalls |-> 1, writes |-> 0,
                   netCalls |-> r.netCalls]
        ELSE [err |-> "none", client |-> token, files |-> files, answer |-> "none",
              refreshCalls |-> 0, writes |-> 0, netCalls |-> 0]

\* Mutant of getAuthClient: a failed refresh removes the token file.
getAuthClient_unlinkOnFail(files, profile, t, cfg, resp) ==
    LET cerr == createOAuth2Client(cfg)
        token == loadToken(files, profile)
        r == refreshAccessToken(token, resp, t)
        fail(e) == [err |-> e, client |-> Null, files |-> files, answer |-> "none",
                    refreshCalls |-> 0, writes |-> 0, netCalls |-> 0]
    IN  IF cerr # "none" THEN fail(cerr)
        ELSE IF token = Null THEN fail("NotAuthenticated")
        ELSE IF needsRefresh(token, t)
        THEN IF r.ok
             THEN [err |-> "none", client |-> r.credentials,
                   files |-> saveToken(files, profile, r.credentials),
                   answer |-> r.answer, refreshCalls |-> 1, writes |-> 1,
                   netCalls |-> r.netCalls]
             ELSE [err |-> "TokenRefreshError", client |-> Null,
                   files |-> [files EXCEPT ![profile] = AbsentFile],
                   answer |-> r.answer, refreshCalls |-> 1, writes |-> 0,
                   netCalls |-> r.netCalls]
        ELSE [err |-> "none", client |-> token, files |-> files, answer |-> "none",
              refreshCalls |-> 0, writes |-> 0, netCalls |-> 0]

\* Mutant of getAuthClient: the check for a missing token is left out.
getAuthClient_noNullCheck(files, profile, t, cfg, resp) ==
    LET cerr == createOAuth2Client(cfg)
        token == loadToken(files, profile)
        r == refreshAccessToken(token, resp, t)
        fail(e) == [err |-> e, client |-> Null, files |-> files, answer |-> "none",
                    refreshCalls |-> 0, writes |-> 0, netCalls |-> 0]
    IN  IF cerr # "none" THEN fail(cerr)
        ELSE IF needsRefresh(token, t)
        THEN IF r.ok
             THEN [err |-> "none", client |-> r.credentials,
                   files |-> saveToken(files, profile, r.credentials),
                   answer |-> r.answer, refreshCalls |-> 1, writes |-> 1,
                   netCalls |-> r.netCalls]
             ELSE [err |-> "TokenRefreshError", client |-> Null, files |-> files,
                   answer |-> r.answer, refreshCalls |-> 1, writes |-> 0,
                   netCalls |-> r.netCalls]
        ELSE [err |-> "none", client |-> token, files |-> files, answer |-> "none",
              refreshCalls |-> 0, writes |-> 0, netCalls |-> 0]

(***************************************************************************)
(* getAuthClient(): the outcome of one call.                               *)
(*   err: the error thrown, or "none"; client: the credentials of the      *)
(*   returned OAuth2 client; files: the token files after the call.        *)
(***************************************************************************)
getAuthClient(files, profile, t, cfg, resp) ==
    LET cerr == createOAuth2Client(cfg)
        token == loadToken(files, profile)
        r == refreshAccessToken(token, resp, t)
        fail(e) == [err |-> e, client |-> Null, files |-> files, answer |-> "none",
                    refreshCalls |-> 0, writes |-> 0, netCalls |-> 0]
    IN  IF cerr # "none" THEN fail(cerr)
        ELSE IF token = Null THEN fail("NotAuthenticated")
        ELSE IF needsRefresh(token, t)
        THEN IF r.ok
             THEN [err |-> "none", client |-> r.credentials,
                   files |-> saveToken(files, profile, r.credentials),
                   answer |-> r.answer, refreshCalls |-> 1, writes |-> 1, netCalls |-> r.netCalls]
             ELSE [err |-> "TokenRefreshError", client |-> Null, files |-> files,
                   answer |-> r.answer, refreshCalls |-> 1, writes |-> 0, netCalls |-> r.netCalls]
        ELSE [err |-> "none", client |-> token, files |-> files, answer |-> "none",
              refreshCalls |-> 0, writes |-> 0, netCalls |-> 0]

(***************************************************************************)
(* The API session and the label resolver (lib/gmail.js).                  *)
(*   gmailClient: Null, or the credentials of the client the handle was    *)
(*   built from.  labelCache: null (set = FALSE) or the cached array; an   *)
(*   empty array is not null.                                              *)
(* A label name is a sequence of characters.                               *)
(***************************************************************************)
LabelNames == {<<"a">>, <<"A">>, <<"a", "b">>}
LabelIds == {"Label_1", "Label_2"}

\* The labels a mailbox may hold: two labels named "a" under different ids,
\* one whose name differs from "a" only in case, and one whose name contains it.
Labels ==
    {l \in [id : LabelIds, name : LabelNames] :
        l.id = "Label_1" => l.name # <<"a", "b">>}

\* The mailbox's labels, in the order the provider lists them.
LabelLists == UNION {[1..n -> Labels] : n \in 0..MaxLabels}

\* The answer to users.labels.list: the call fails, the answer has no labels
\* field, or it has the mailbox's labels.
ListResponses ==
    {[kind |-> "error", labels |-> <<>>], [kind |-> "no_labels", labels |-> <<>>]}
    \cup {[kind |-> "ok", labels |-> l] : l \in LabelLists}

\* No labels request reaches the provider.
NoList == [kind |-> "error", labels |-> <<>>]

NullCache == [set |-> FALSE, labels |-> <<>>]

\* getGmailClient() when no handle is cached: a is the outcome of
\* getAuthClient().
buildGmailClient(a) ==
    [err |-> a.err, client |-> a.client, files |-> a.files, authCalls |-> 1]

\* Mutant of getGmailClient: the cached handle is not looked at.
getGmailClient_noCache(client, files, profile, t, cfg, resp) ==
    buildGmailClient(getAuthClient(files, profile, t, cfg, resp))

\* getGmailClient(): the handle is built once, from getAuthClient().
getGmailClient(client, files, profile, t, cfg, resp) ==
    IF client = Null
    THEN buildGmailClient(getAuthClient(files, profile, t, cfg, resp))
    ELSE [err |-> "none", client |-> client, files |-> files, authCalls |-> 0]

\* Mutant of fetchLabels: the fetched labels are appended to the cached ones.
fetchLabels_merge(cache, g, list) ==
    LET fetched == cache.labels \o
                   (IF list.kind = "no_labels" THEN <<>> ELSE list.labels)
    IN  IF g.err # "none"
        THEN [err |-> g.err, ret |-> <<>>, cache |-> cache, client |-> g.client,
              files |-> g.files, fetches |-> 0, authCalls |-> g.authCalls]
        ELSE IF list.kind = "error"
        THEN [err |-> "UpstreamError", ret |-> <<>>, cache |-> cache,
              client |-> g.client, files |-> g.files, fetches |-> 1,
              authCalls |-> g.authCalls]
        ELSE [err |-> "none", ret |-> fetched,
              cache |-> [set |-> TRUE, labels |-> fetched],
              client |-> g.client, files |-> g.files, fetches |-> 1,
              authCalls |-> g.authCalls]

\* The body of getLabels' if: g is the outcome of getGmailClient(), list the
\* provider's answer to users.labels.list; labelCache = labels || [].
fetchLabels(cache, g, list) ==
    LET fetched == IF list.kind = "no_labels" THEN <<>> ELSE list.labels
    IN  IF g.err # "none"
        THEN [err |-> g.err, ret |-> <<>>, cache |-> cache, client |-> g.client,
              files |-> g.files, fetches |-> 0, authCalls |-> g.authCalls]
        ELSE IF list.kind = "error"
        THEN [err |-> "UpstreamError", ret |-> <<>>, cache |-> cache,
              client |-> g.client, files |-> g.files, fetches |-> 1,
              authCalls |-> g.authCalls]
        ELSE [err |-> "none", ret |-> fetched,
              cache |-> [set |-> TRUE, labels |-> fetched],
              client |-> g.client, files |-> g.files, fetches |-> 1,
              authCalls |-> g.authCalls]

\* getLabels(refresh): the outcome of one call.
getLabels(refresh, cache, client, files, profile, t, cfg, resp, list) ==
    IF ~cache.set \/ refresh
    THEN fetchLabels(cache, getGmailClient(client, files, profile, t, cfg, resp), list)
    ELSE [err |-> "none", ret |-> cache.labels, cache |-> cache, client |-> client,
          files |-> files, fetches |-> 0, authCalls |-> 0]

\* String.prototype.toLowerCase on a name.
toLowerCase(name) == [k \in DOMAIN name |-> IF name[k] = "A" THEN "a" ELSE name[k]]

\* Mutant of find: names are compared ignoring case.
find_ignoreCase(labels, labelName) ==
    LET hits == {k \in DOMAIN labels :
                    toLowerCase(labels[k].name) = toLowerCase(labelName)}
    IN  IF hits = {} THEN 0 ELSE CHOOSE k \in hits : \A j \in hits : k <= j

\* labels.find(l => l.name === labelName): the index of the first label whose
\* name is labelName, 0 when find returns undefined.
find(labels, labelName) ==
    LET hits == {k \in DOMAIN labels : labels[k].name = labelName}
    IN  IF hits = {} THEN 0 ELSE CHOOSE k \in hits : \A j \in hits : k <= j

\* Array.prototype.join: the strings of parts with sep between them.
join(parts, sep) ==
    LET upTo[k \in 0..Len(parts)] ==
            IF k = 0 THEN <<>>
            ELSE IF k = 1 THEN parts[1]
            ELSE upTo[k - 1] \o sep \o parts[k]
    IN  upTo[Len(parts)]

\* getLabelIdByName after its await: l is the outcome of getLabels().
\* available is the list of names in the message of the error thrown when no
\* label matches.
resolveLabel(labelName, l) ==
    LET k == find(l.ret, labelName)
        availableLabels == join([j \in DOMAIN l.ret |-> l.ret[j].name], <<",", " ">>)
    IN  IF l.err # "none"
        THEN [err |-> l.err, id |-> "none", available |-> <<>>, cache |-> l.cache,
              client |-> l.client, files |-> l.files, fetches |-> l.fetches,
              authCalls |-> l.authCalls]
        ELSE IF k = 0
        THEN [err |-> "LabelNotFound", id |-> "none", available |-> availableLabels,
              cache |-> l.cache, client |-> l.client, files |-> l.files,
              fetches |-> l.fetches, authCalls |-> l.authCalls]
        ELSE [err |-> "none", id |-> l.ret[k].id, available |-> <<>>,
              cache |-> l.cache, client |-> l.client, files |-> l.files,
              fetches |-> l.fetches, authCalls |-> l.authCalls]

\* getLabelIdByName(labelName): the outcome of one call.
getLabelIdByName(labelName, cache, client, files, profile, t, cfg, resp, list) ==
    resolveLabel(labelName,
        getLabels(FALSE, cache, client, files, profile, t, cfg, resp, list))

(***************************************************************************)
(* The Send/Reply orchestrator and the MIME composer (lib/email-sender.js) *)
(* and the message codec (lib/gmail.js).                                   *)
(***************************************************************************)
\* A string is a sequence of pieces of text; "\n" is a line feed.  <<>> is
\* the empty string, which JavaScript reads as false.
MAX_MESSAGE_SIZE == 36700160

\* What a path of the attachments list leads to: no file, or a file of some
\* size in bytes: one byte, exactly the limit, or one byte more.
NoFile == [exists |-> FALSE, size |-> 0]
FileSizes == {1, MAX_MESSAGE_SIZE, MAX_MESSAGE_SIZE + 1}
Files == {NoFile} \cup {[exists |-> TRUE, size |-> n] : n \in FileSizes}
AttachmentLists == UNION {[1..n -> Files] : n \in 0..MaxAttachments}

\* Mutant of validateAttachment: a file of exactly the limit is rejected.
validateAttachment_inclusive(file) ==
    IF ~file.exists THEN [err |-> "AttachmentNotFound", size |-> 0]
    ELSE IF file.size >= MAX_MESSAGE_SIZE THEN [err |-> "AttachmentTooLarge", size |-> 0]
    ELSE [err |-> "none", size |-> file.size]

\* validateAttachment(filePath): the error thrown, or the size returned.
validateAttachment(file) ==
    IF ~file.exists THEN [err |-> "AttachmentNotFound", size |-> 0]
    ELSE IF file.size > MAX_MESSAGE_SIZE THEN [err |-> "AttachmentTooLarge", size |-> 0]
    ELSE [err |-> "none", size |-> file.size]

\* attachments.map(...): the index of the first path validateAttachment
\* throws on (0: none), and totalSize once the map has run through.
firstRejected(attachments) ==
    LET bad == {k \in DOMAIN attachments : validateAttachment(attachments[k]).err # "none"}
    IN  IF bad = {} THEN 0 ELSE CHOOSE k \in bad : \A j \in bad : k <= j

totalSize(attachments) ==
    LET upTo[k \in 0..Len(attachments)] ==
            IF k = 0 THEN 0 ELSE upTo[k - 1] + validateAttachment(attachments[k]).size
    IN  upTo[Len(attachments)]

\* The message nodemailer is given (messageConfig), which it renders and
\* buildMimeMessage encodes: a body that is empty is not set.
NoHeaders == [inReplyTo |-> <<>>, references |-> <<>>]
NoMessage ==
    [to |-> <<>>, subject |-> <<>>, text |-> <<>>, html |-> <<>>,
     headers |-> NoHeaders, attachments |-> 0]

\* buildMimeMessage(options): the error thrown, or the message built.
buildMimeMessage(to, subject, bodyTxt, bodyHtml, attachments, headers) ==
    LET k == firstRejected(attachments) IN
    IF k # 0
    THEN [err |-> validateAttachment(attachments[k]).err, message |-> NoMessage]
    ELSE IF totalSize(attachments) > MAX_MESSAGE_SIZE
    THEN [err |-> "MessageTooLarge", message |-> NoMessage]
    ELSE [err |-> "none",
          message |-> [to |-> to, subject |-> subject, text |-> bodyTxt,
                       html |-> bodyHtml, headers |-> headers,
                       attachments |-> Len(attachments)]]

\* A request to the mail provider.
Request(api, threadId, message) ==
    [api |-> api, threadId |-> threadId, message |-> message]

\* The end of sendEmail() and of replyToEmail(): createDraft() when draft is
\* set, users.messages.send otherwise; sent is the provider's answer, b the
\* outcome of buildMimeMessage(), before the requests made so far.
deliver(draft, threadId, b, sent, before) ==
    IF b.err # "none" THEN [err |-> b.err, requests |-> before]
    ELSE [err |-> IF sent = "ok" THEN "none" ELSE "UpstreamError",
          requests |-> Append(before,
                Request(IF draft THEN "drafts.create" ELSE "messages.send",
                        threadId, b.message))]

\* sendEmail() once getGmailClient() returned g.
\* compose: the error buildMimeMessage() threw ("none" when it returned),
\* "not_reached" when the call failed before it.
sendWith(draft, g, b, sent) ==
    IF g.err # "none"
    THEN [err |-> g.err, requests |-> <<>>, client |-> g.client,
          compose |-> "not_reached"]
    ELSE [err |-> deliver(draft, "none", b, sent, <<>>).err,
          requests |-> deliver(draft, "none", b, sent, <<>>).requests,
          client |-> g.client, compose |-> b.err]

\* sendEmail(options): the outcome of one call.
sendEmail(options, client, files, profile, t, cfg, resp, sent) ==
    sendWith(options.draft,
             getGmailClient(client, files, profile, t, cfg, resp),
             buildMimeMessage(options.to, options.subject, options.bodyTxt,
                              options.bodyHtml, options.attachments, NoHeaders),
             sent)

\* The bodies a caller passes: none or some text.
TextBodies == {<<>>, <<"h", "i">>}
HtmlBodies == {<<>>, <<"<p>", "h", "i", "</p>">>}

\* The options of the send command.
SendOptions ==
    [to : {<<"bob@x">>}, subject : {<<"R", "e", "p", "o", "r", "t">>},
     bodyTxt : TextBodies, bodyHtml : HtmlBodies,
     attachments : AttachmentLists, draft : BOOLEAN]

\* The provider's answer to users.messages.send and users.drafts.create.
SendAnswers == {"ok", "error"}

\* The base64 alphabet, in the order of its values 0..63.
Base64Alphabet ==
    <<"A", "B", "C", "D", "E", "F", "G", "H", "I", "J", "K", "L", "M",
      "N", "O", "P", "Q", "R", "S", "T", "U", "V", "W", "X", "Y", "Z",
      "a", "b", "c", "d", "e", "f", "g", "h", "i", "j", "k", "l", "m",
      "n", "o", "p", "q", "r", "s", "t", "u", "v", "w", "x", "y", "z",
      "0", "1", "2", "3", "4", "5", "6", "7", "8", "9", "+", "/">>

\* Buffer.toString('utf8') of one byte: the characters the bodies of the
\* model are written in; any other byte is shown as "?".
fromCharCode(byte) ==
    CASE byte = 10 -> "\n"
      [] byte = 60 -> "<"
      [] byte = 62 -> ">"
      [] byte = 97 -> "a"
      [] byte = 98 -> "b"
      [] byte = 99 -> "c"
      [] OTHER -> "?"

\* decodeBase64Url(str): "-" and "_" are replaced by "+" and "/", then every
\* character stands for six bits and every eight bits of the run are a byte.
decodeBase64Url(str) ==
    LET base64 == [k \in DOMAIN str |->
                        IF str[k] = "-" THEN "+" ELSE IF str[k] = "_" THEN "/" ELSE str[k]]
        sextet(c) == (CHOOSE v \in 1..64 : Base64Alphabet[v] = c) - 1
        byte(k) == LET i == (8 * (k - 1)) \div 6 + 1
                       off == (8 * (k - 1)) % 6
                   IN  ((sextet(base64[i]) * 64 + sextet(base64[i + 1])) \div 2^(4 - off)) % 256
    IN  [k \in 1..((Len(str) * 6) \div 8) |-> fromCharCode(byte(k))]

\* A part of a payload: its media type, its inline body data (base64url,
\* <<>> when it has none) and its child parts.
Part(mimeType, data, parts) == [mimeType |-> mimeType, data |-> data, parts |-> parts]

\* Mutant of extractBody: a body already found is kept.
RECURSIVE extractBody_firstWins(_, _)
extractBody_firstWins(part, found) ==
    LET here == IF part.mimeType = "text/plain" /\ part.data # <<>> /\ found.text = <<>>
                THEN [found EXCEPT !.text = decodeBase64Url(part.data)]
                ELSE IF part.mimeType = "text/html" /\ part.data # <<>> /\ found.html = <<>>
                THEN [found EXCEPT !.html = decodeBase64Url(part.data)]
                ELSE found
        forEach[k \in 0..Len(part.parts)] ==
            IF k = 0 THEN here ELSE extractBody_firstWins(part.parts[k], forEach[k - 1])
    IN  forEach[Len(part.parts)]

\* extractBody(part): textBody and htmlBody after the call, found being their
\* values before it.
RECURSIVE extractBody(_, _)
extractBody(part, found) ==
    LET here == IF part.mimeType = "text/plain" /\ part.data # <<>>
                THEN [found EXCEPT !.text = decodeBase64Url(part.data)]
                ELSE IF part.mimeType = "text/html" /\ part.data # <<>>
                THEN [found EXCEPT !.html = decodeBase64Url(part.data)]
                ELSE found
        forEach[k \in 0..Len(part.parts)] ==
            IF k = 0 THEN here ELSE extractBody(part.parts[k], forEach[k - 1])
    IN  forEach[Len(part.parts)]

\* getMessageBody(message): the simple body of the payload, then its parts.
getMessageBody(payload) ==
    LET simple == IF payload.data # <<>> /\ payload.mimeType = "text/plain"
                  THEN [text |-> decodeBase64Url(payload.data), html |-> <<>>]
                  ELSE IF payload.data # <<>> /\ payload.mimeType = "text/html"
                  THEN [text |-> <<>>, html |-> decodeBase64Url(payload.data)]
                  ELSE [text |-> <<>>, html |-> <<>>]
        forEach[k \in 0..Len(payload.parts)] ==
            IF k = 0 THEN simple ELSE extractBody(payload.parts[k], forEach[k - 1])
    IN  forEach[Len(payload.parts)]

\* What a part may be by itself: plain text "a" or "b", plain text without
\* inline data, text of another media type, HTML "<b>", or a container.
PartHeads ==
    {[mimeType |-> "text/plain", data |-> <<"Y", "Q">>],
     [mimeType |-> "text/plain", data |-> <<"Y", "g">>],
     [mimeType |-> "text/plain", data |-> <<>>],
     [mimeType |-> "text/x-plain", data |-> <<"Y", "Q">>],
     [mimeType |-> "text/html", data |-> <<"P", "G", "I", "-">>],
     [mimeType |-> "multipart/mixed", data |-> <<>>]}

\* A payload tree written flat: the heads of its n parts in depth-first
\* order, and the depth of each (the payload itself at depth 0, every other
\* part at most one level below the part before it).
DepthLists(n) ==
    {d \in [1..n -> 0..(n - 1)] :
        d[1] = 0 /\ \A k \in 2..n : d[k] >= 1 /\ d[k] <= d[k - 1] + 1}

\* The part that is written at position k, with its child parts.
RECURSIVE BuildPart(_, _, _)
BuildPart(heads, depths, k) ==
    LET kids == {j \in (k + 1)..Len(heads) :
                    /\ depths[j] = depths[k] + 1
                    /\ \A i \in (k + 1)..j : depths[i] > depths[k]}
        nth(i) == CHOOSE j \in kids : Cardinality({x \in kids : x < j}) = i - 1
    IN  Part(heads[k].mimeType, heads[k].data,
             [i \in 1..Cardinality(kids) |-> BuildPart(heads, depths, nth(i))])

\* String.prototype.toLowerCase on the header names of the model.
toLowerCaseName(name) ==
    CASE name \in {"Message-ID", "Message-Id"} -> "message-id"
      [] name = "References" -> "references"
      [] name = "Subject" -> "subject"
      [] name = "From" -> "from"
      [] name = "To" -> "to"
      [] name = "Date" -> "date"
      [] OTHER -> name

\* getHeader(message, headerName): found is FALSE when it returns null.
getHeader(headers, headerName) ==
    LET hits == {k \in DOMAIN headers :
                    toLowerCaseName(headers[k].name) = toLowerCaseName(headerName)}
    IN  IF hits = {} THEN [found |-> FALSE, value |-> <<>>]
        ELSE [found |-> TRUE,
              value |-> headers[CHOOSE k \in hits : \A j \in hits : k <= j].value]

\* What JavaScript reads as true: a header that is there and not empty.
truthy(h) == h.found /\ h.value # <<>>

\* A header value inside a template literal.
inTemplate(h) == IF h.found THEN h.value ELSE <<"null">>

\* String.prototype.startsWith
startsWith(str, prefix) ==
    Len(str) >= Len(prefix) /\ SubSeq(str, 1, Len(prefix)) = prefix

\* Mutant of replySubject: the prefix is looked for ignoring case.
replySubject_ignoreCase(originalSubject) ==
    IF originalSubject.found /\ startsWith(
            [k \in DOMAIN originalSubject.value |->
                IF originalSubject.value[k] = "R" THEN "r"
                ELSE IF originalSubject.value[k] = "E" THEN "e"
                ELSE originalSubject.value[k]], <<"r", "e", ":">>)
    THEN originalSubject.value
    ELSE <<"R", "e", ":", " ">> \o originalSubject.value

\* The subject of the reply.
replySubject(originalSubject) ==
    IF originalSubject.found /\ startsWith(originalSubject.value, <<"R", "e", ":">>)
    THEN originalSubject.value
    ELSE <<"R", "e", ":", " ">> \o originalSubject.value

\* Mutant of replyReferences: the prior chain is dropped.
replyReferences_dropChain(originalReferences, originalMessageId) ==
    originalMessageId.value

\* The References header of the reply.
replyReferences(originalReferences, originalMessageId) ==
    IF truthy(originalReferences)
    THEN originalReferences.value \o <<" ">> \o originalMessageId.value
    ELSE originalMessageId.value

\* The recipient of the reply: originalFrom.match(/<(.+?)>/), else the whole
\* header.
replyTo(originalFrom) ==
    LET v == originalFrom.value
        spans == {p \in (DOMAIN v) \X (DOMAIN v) :
                    v[p[1]] = "<" /\ v[p[2]] = ">" /\ p[2] > p[1] + 1}
        first == CHOOSE p \in spans :
                    \A q \in spans : p[1] < q[1] \/ (p[1] = q[1] /\ p[2] <= q[2])
    IN  IF spans = {} THEN v ELSE SubSeq(v, first[1] + 1, first[2] - 1)

\* String.prototype.split('\n'): the lines of a text.
split(str) ==
    LET feeds == {k \in DOMAIN str : str[k] = "\n"}
        start(i) == IF i = 1 THEN 1
                    ELSE 1 + CHOOSE k \in feeds : Cardinality({j \in feeds : j < k}) = i - 2
        end(i) == IF i = Cardinality(feeds) + 1 THEN Len(str)
                  ELSE (CHOOSE k \in feeds : Cardinality({j \in feeds : j < k}) = i - 1) - 1
    IN  [i \in 1..(Cardinality(feeds) + 1) |-> SubSeq(str, start(i), end(i))]

\* Mutant of quotedText: only the first line is marked.
quotedText_firstLineOnly(text) == <<"> ">> \o text

\* originalBody.text.split('\n').map(line => `> ${line}`).join('\n')
quotedText(text) ==
    join([i \in DOMAIN split(text) |-> <<"> ">> \o split(text)[i]], <<"\n">>)

\* The bodies of the reply: [text, html].
replyBodies(bodyTxt, bodyHtml, quote, originalBody, date, originalFrom) ==
    [text |-> IF quote /\ bodyTxt # <<>> /\ originalBody.text # <<>>
              THEN bodyTxt \o <<"\n", "\n", "On ">> \o inTemplate(date) \o <<", ">>
                   \o inTemplate(originalFrom) \o <<" wrote:", "\n">>
                   \o quotedText(originalBody.text)
              ELSE bodyTxt,
     html |-> IF quote /\ bodyHtml # <<>> /\ originalBody.html # <<>>
              THEN bodyHtml \o <<"<br><br><blockquote>">> \o originalBody.html
                   \o <<"</blockquote>">>
              ELSE bodyHtml]

\* Mutant of replyCompose: a missing Message-ID is let through.
replyCompose_noIdCheck(options, original) ==
    LET originalMessageId == getHeader(original.headers, "Message-ID")
        originalFrom == getHeader(original.headers, "From")
        bodies == replyBodies(options.bodyTxt, options.bodyHtml, options.quote,
                              getMessageBody(original.payload),
                              getHeader(original.headers, "Date"), originalFrom)
    IN  buildMimeMessage(
                replyTo(originalFrom),
                replySubject(getHeader(original.headers, "Subject")),
                bodies.text, bodies.html, options.attachments,
                [inReplyTo |-> originalMessageId.value,
                 references |-> replyReferences(
                                    getHeader(original.headers, "References"),
                                    originalMessageId)])

\* replyToEmail() from the fetched original to the message built: the error
\* thrown, or the message.
replyCompose(options, original) ==
    LET originalMessageId == getHeader(original.headers, "Message-ID")
        originalFrom == getHeader(original.headers, "From")
        bodies == replyBodies(options.bodyTxt, options.bodyHtml, options.quote,
                              getMessageBody(original.payload),
                              getHeader(original.headers, "Date"), originalFrom)
    IN  IF ~truthy(originalMessageId)
        THEN [err |-> "MissingMessageId", message |-> NoMessage]
        ELSE buildMimeMessage(
                replyTo(originalFrom),
                replySubject(getHeader(original.headers, "Subject")),
                bodies.text, bodies.html, options.attachments,
                [inReplyTo |-> originalMessageId.value,
                 references |-> replyReferences(
                                    getHeader(original.headers, "References"),
                                    originalMessageId)])

\* Mutant of replyDeliver: the reply is sent outside the thread.
replyDeliver_noThread(draft, threadId, b, sent) ==
    LET fetch == <<Request("messages.get", "none", NoMessage)>>
        d == deliver(draft, "none", b, sent, fetch)
    IN  [err |-> d.err, requests |-> d.requests,
         compose |-> IF b.err = "MissingMessageId" THEN "not_reached" ELSE b.err]

\* replyToEmail() from the fetched original on: b is the outcome of
\* replyCompose().
replyDeliver(draft, threadId, b, sent) ==
    LET fetch == <<Request("messages.get", "none", NoMessage)>>
        d == deliver(draft, threadId, b, sent, fetch)
    IN  [err |-> d.err, requests |-> d.requests,
         compose |-> IF b.err = "MissingMessageId" THEN "not_reached" ELSE b.err]

\* replyToEmail() once getGmailClient() returned g and users.messages.get
\* was answered got.
replyWith(options, g, got, sent) ==
    IF g.err # "none"
    THEN [err |-> g.err, requests |-> <<>>, client |-> g.client,
          compose |-> "not_reached"]
    ELSE IF got.kind # "ok"
    THEN [err |-> "UpstreamError",
          requests |-> <<Request("messages.get", "none", NoMessage)>>,
          client |-> g.client, compose |-> "not_reached"]
    ELSE [client |-> g.client] @@
         replyDeliver(options.draft, got.message.threadId,
                      replyCompose(options, got.message), sent)

\* replyToEmail(options): the outcome of one call.
replyToEmail(options, client, files, profile, t, cfg, resp, got, sent) ==
    replyWith(options, getGmailClient(client, files, profile, t, cfg, resp), got, sent)

\* The headers an original message may carry.  A Message-ID may be missing,
\* empty, or there under the name Message-Id; the References may be missing,
\* empty, or a chain of two.
Header(name, value) == [name |-> name, value |-> value]

MessageIdHeaders ==
    {<<>>, <<Header("Message-ID", <<>>)>>, <<Header("Message-Id", <<"<abc@x>">>)>>}

ReferencesHeaders ==
    {<<>>, <<Header("References", <<>>)>>,
     <<Header("References", <<"<a@x>", " ", "<b@x>">>)>>}

SubjectHeaders ==
    {<<>>,
     <<Header("Subject", <<"x">>)>>,
     <<Header("Subject", <<"R", "e", ":", " ", "x">>)>>,
     <<Header("Subject", <<"R", "e", ":", "x">>)>>,
     <<Header("Subject", <<"R", "E", ":", " ", "x">>)>>,
     <<Header("Subject", <<"R", "e">>)>>}

\* The payloads of the original: plain text "a\nb", plain text and HTML, HTML.
ReplyPayloads ==
    {Part("text/plain", <<"Y", "Q", "p", "i">>, <<>>),
     Part("multipart/alternative", <<>>,
          <<Part("text/plain", <<"Y", "Q", "p", "i">>, <<>>),
            Part("text/html", <<"P", "G", "I", "-">>, <<>>)>>),
     Part("text/html", <<"P", "G", "I", "-">>, <<>>)}

ThreadIds == {"t1", "t2"}

NoOriginal ==
    [threadId |-> "none", headers |-> <<>>, payload |-> Part("multipart/mixed", <<>>, <<>>)]

OriginalMessages ==
    {[threadId |-> t,
      headers |-> m \o r \o s \o
                  <<Header("From", <<"Ann ", "<", "ann@x", ">">>),
                    Header("Date", <<"Mon">>)>>,
      payload |-> p] :
        t \in ThreadIds, m \in MessageIdHeaders, r \in ReferencesHeaders,
        s \in SubjectHeaders, p \in ReplyPayloads}

\* The provider's answer to users.messages.get.
GetAnswers ==
    {[kind |-> "error", message |-> NoOriginal]}
    \cup {[kind |-> "ok", message |-> m] : m \in OriginalMessages}

\* No users.messages.get request reaches the provider.
NoAnswer == [kind |-> "none", message |-> NoOriginal]

\* The options of the reply command.  A reply attaches nothing, one file, or
\* two files of exactly the limit.
ReplyAttachmentLists ==
    {a \in AttachmentLists :
        Len(a) <= 1 \/ (Len(a) = 2 /\ \A k \in 1..2 : a[k].size = MAX_MESSAGE_SIZE)}

ReplyOptions ==
    [bodyTxt : TextBodies, bodyHtml : HtmlBodies, attachments : ReplyAttachmentLists,
     quote : BOOLEAN, draft : BOOLEAN]

\* No sendEmail()/replyToEmail() call has run.
NoMail ==
    [op |-> "none", draft |-> FALSE, quote |-> FALSE, bodyTxt |-> <<>>,
     bodyHtml |-> <<>>, attachments |-> <<>>, got |-> NoAnswer, err |-> "none",
     compose |-> "not_reached", requests |-> <<>>]

\* No getMessageBody() call has run.
NoBody ==
    [op |-> "none", payload |-> Part("multipart/mixed", <<>>, <<>>),
     body |-> [text |-> <<>>, html |-> <<>>]]

(***************************************************************************)
(* The record of a label resolver call.                                    *)
(***************************************************************************)
NoLabelCall ==
    [op |-> "none", refresh |-> FALSE, name |-> <<>>, err |-> "none",
     id |-> "none", ret |-> <<>>, available |-> <<>>, fetches |-> 0,
     authCalls |-> 0, fetched |-> NoList]

\* The record of a getGmailClient() call: returned is the handle it returned,
\* builds the number of getAuthClient() calls that have succeeded in the
\* process so far.
NoSession ==
    [op |-> "none", err |-> "none", returned |-> Null, authCalls |-> 0, builds |-> 0]

\* The processes of two login() runs started for one profile.
Procs == {1, 2}

\* Neither process has started its listener; the token file does not exist.
NoRace ==
    [proc |-> [p \in Procs |-> [pc |-> "start", listening |-> FALSE, tokens |-> Null]],
     exists |-> FALSE,
     bytes |-> <<>>,
     events |-> <<>>]

(***************************************************************************)
(* The record of an Auth Manager call: cfg and answer are what it found on *)
(* disk and was answered by the provider, the rest what it did and         *)
(* returned.                                                               *)
(***************************************************************************)
NoCall ==
    [op |-> "none",
     cfg |-> "ok", answer |-> "none", err |-> "none", client |-> Null,
     refreshCalls |-> 0, writes |-> 0, deletes |-> 0, netCalls |-> 0,
     requests |-> 0, request |-> "none", inner |-> "none", out |-> <<>>]

Init ==
    /\ now = 1
    /\ tokenFile = [p \in Profiles |-> AbsentFile]
    /\ currentProfile = "default"
    /\ pc = "idle"
    /\ listening = FALSE
    /\ gmailClient = Null
    /\ labelCache = NullCache
    /\ last = NoCall
    /\ lastLabel = NoLabelCall
    /\ lastMail = NoMail
    /\ lastBody = NoBody
    /\ session = NoSession
    /\ race = NoRace

\* index.js: a new process; the preAction hook calls setProfile(profile).
StartProcess ==
    \E p \in Profiles :
        /\ currentProfile' = p
        /\ pc' = "idle"
        /\ listening' = FALSE
        /\ gmailClient' = Null
        /\ labelCache' = NullCache
        /\ last' = NoCall
        /\ lastLabel' = NoLabelCall
        /\ UNCHANGED <<now, tokenFile>>
    /\ UNCHANGED mailVars

\* Time passes.
Tick ==
    /\ now < MaxTime
    /\ now' = now + 1
    /\ last' = IF pc = "idle" THEN NoCall ELSE last
    /\ UNCHANGED <<tokenFile, currentProfile, pc, listening, gmailClient, labelCache,
                   lastLabel>>
    /\ UNCHANGED mailVars

\* A call of getAuthClient() by a command.
GetAuthClient ==
    /\ pc = "idle"
    /\ \E i \in AuthInputs :
        LET o == getAuthClient(tokenFile, currentProfile, now, i.cfg, i.resp) IN
        /\ tokenFile' = o.files
        /\ last' = [NoCall EXCEPT !.op = "getAuthClient",
                       !.cfg = i.cfg, !.answer = o.answer,
                       !.err = o.err, !.client = o.client,
                       !.refreshCalls = o.refreshCalls, !.writes = o.writes,
                       !.netCalls = o.netCalls]
    /\ UNCHANGED <<now, currentProfile, pc, listening, gmailClient, labelCache, lastLabel>>
    /\ UNCHANGED mailVars

\* The provider's tokens for a code exchange, oauth2Client.getToken(code)
\* (google-auth-library): expiry_date is set from expires_in when present.
getToken(resp, t) ==
    [access_token |-> resp.access,
     refresh_token |-> resp.refresh,
     expiry_date |-> IF resp.hasExpiry THEN t + TokenLifetime ELSE 0]

\* Mutant of logout: the token file is reported deleted but kept.
logout_keepFile(files, profile) ==
    IF existsSync(files[profile])
    THEN [err |-> "none", files |-> files,
          deletes |-> 1, out |-> <<"Logged out successfully">>]
    ELSE [err |-> "none", files |-> files,
          deletes |-> 0, out |-> <<"Not currently logged in">>]

\* Mutant of logout: unlinkSync is called without the existsSync check and
\* throws when there is no file.
logout_throwsWhenAbsent(files, profile) ==
    IF existsSync(files[profile])
    THEN [err |-> "none", files |-> [files EXCEPT ![profile] = AbsentFile],
          deletes |-> 1, out |-> <<"Logged out successfully">>]
    ELSE [err |-> "ENOENT", files |-> files, deletes |-> 0, out |-> <<>>]

(***************************************************************************)
(* logout(): the outcome of one call.                                      *)
(***************************************************************************)
logout(files, profile) ==
    IF existsSync(files[profile])
    THEN [err |-> "none", files |-> [files EXCEPT ![profile] = AbsentFile],
          deletes |-> 1, out |-> <<"Logged out successfully">>]
    ELSE [err |-> "none", files |-> files,
          deletes |-> 0, out |-> <<"Not currently logged in">>]

Logout ==
    /\ pc = "idle"
    /\ LET o == logout(tokenFile, currentProfile) IN
        /\ tokenFile' = o.files
        /\ last' = [NoCall EXCEPT !.op = "logout",
                       !.err = o.err, !.deletes = o.deletes, !.out = o.out]
    /\ UNCHANGED <<now, currentProfile, pc, listening, gmailClient, labelCache, lastLabel>>
    /\ UNCHANGED mailVars

(***************************************************************************)
(* checkStatus().  statusProbe is the body of its try block: thrown is the *)
(* error raised inside it ("none" when it ran to its end), out the lines   *)
(* printed before that.  probe: which of users.getProfile and             *)
(* getTokenInfo fails, if any.                                             *)
(***************************************************************************)
expiryLine(token) ==
    IF token.expiry_date # 0 THEN <<"Token expires">> ELSE <<>>

statusProbe(files, profile, t, cfg, resp, probe) ==
    LET a == getAuthClient(files, profile, t, cfg, resp)
        token == loadToken(a.files, profile)
    IN  IF a.err # "none"
        THEN [thrown |-> a.err, out |-> <<>>, auth |-> a, netCalls |-> a.netCalls]
        ELSE IF probe = "profile_fails"
        THEN [thrown |-> "UpstreamError", out |-> <<>>, auth |-> a,
              netCalls |-> a.netCalls + 1]
        ELSE IF probe = "info_fails"
        THEN [thrown |-> "UpstreamError",
              out |-> <<"Status: Authenticated", "Email">>, auth |-> a,
              netCalls |-> a.netCalls + 2]
        ELSE [thrown |-> "none",
              out |-> <<"Status: Authenticated", "Email", "Scopes">> \o expiryLine(token),
              auth |-> a, netCalls |-> a.netCalls + 2]

\* Mutant of checkStatus: no try/catch around the probe.
checkStatus_noCatch(files, profile, t, cfg, resp, probe) ==
    LET initialToken == loadToken(files, profile)
        b == statusProbe(files, profile, t, cfg, resp, probe)
    IN  IF initialToken = Null
        THEN [err |-> "none", files |-> files, client |-> Null,
              refreshCalls |-> 0, writes |-> 0, netCalls |-> 0,
              out |-> <<"Status: Not authenticated", "Run gmail auth login">>]
        ELSE [err |-> b.thrown, files |-> b.auth.files, client |-> b.auth.client,
              refreshCalls |-> b.auth.refreshCalls, writes |-> b.auth.writes,
              netCalls |-> b.netCalls, out |-> b.out]

checkStatus(files, profile, t, cfg, resp, probe) ==
    LET initialToken == loadToken(files, profile)
        b == statusProbe(files, profile, t, cfg, resp, probe)
    IN  IF initialToken = Null
        THEN [err |-> "none", files |-> files, client |-> Null,
              refreshCalls |-> 0, writes |-> 0, netCalls |-> 0,
              out |-> <<"Status: Not authenticated", "Run gmail auth login">>]
        ELSE IF b.thrown # "none"
        THEN [err |-> "none", files |-> b.auth.files, client |-> b.auth.client,
              refreshCalls |-> b.auth.refreshCalls, writes |-> b.auth.writes,
              netCalls |-> b.netCalls,
              out |-> b.out \o <<"Status: Token expired or invalid",
                                 "Run gmail auth login">>]
        ELSE [err |-> "none", files |-> b.auth.files, client |-> b.auth.client,
              refreshCalls |-> b.auth.refreshCalls, writes |-> b.auth.writes,
              netCalls |-> b.netCalls, out |-> b.out]

CheckStatus ==
    /\ pc = "idle"
    /\ \E i \in StatusInputs :
        LET o == checkStatus(tokenFile, currentProfile, now, i.cfg, i.resp, i.probe)
            b == statusProbe(tokenFile, currentProfile, now, i.cfg, i.resp, i.probe)
        IN
        /\ tokenFile' = o.files
        /\ last' = [NoCall EXCEPT !.op = "checkStatus",
                       !.cfg = IF loadToken(tokenFile, currentProfile) = Null
                               THEN "ok" ELSE i.cfg,
                       !.answer = IF loadToken(tokenFile, currentProfile) = Null
                                  THEN "none" ELSE b.auth.answer,
                       !.err = o.err, !.client = o.client,
                       !.refreshCalls = o.refreshCalls, !.writes = o.writes,
                       !.netCalls = o.netCalls, !.out = o.out,
                       !.inner = IF loadToken(tokenFile, currentProfile) = Null
                                 THEN "none" ELSE b.thrown]
    /\ UNCHANGED <<now, currentProfile, pc, listening, gmailClient, labelCache, lastLabel>>
    /\ UNCHANGED mailVars

(***************************************************************************)
(* login().  LoginStart runs it up to the await of the callback promise;   *)
(* LoginCallback is the listener's request handler and, when it resolves   *)
(* the promise, the rest of login().                                       *)
(***************************************************************************)
LoginStart ==
    /\ pc = "idle"
    /\ \E cfg \in ConfigStates :
        LET cerr == createOAuth2Client(cfg) IN
        /\ last' = [NoCall EXCEPT !.op = "login", !.cfg = cfg,
                       !.err = IF cerr # "none" THEN cerr ELSE "pending"]
        /\ pc' = IF cerr # "none" THEN "idle" ELSE "login_wait"
        /\ listening' = (cerr = "none")
    /\ UNCHANGED <<now, tokenFile, currentProfile, gmailClient, labelCache, lastLabel>>
    /\ UNCHANGED mailVars

Requests == {"code", "no_code", "other_path", "bad_url"}

\* Mutant of handleRequest: the catch block rejects without closing.
handleRequest_openAfterError(req) ==
    CASE req = "bad_url" ->
            [closed |-> FALSE, settled |-> "rejected", err |-> "ListenerError"]
      [] req = "other_path" ->
            [closed |-> FALSE, settled |-> "pending", err |-> "pending"]
      [] req = "code" ->
            [closed |-> TRUE, settled |-> "resolved", err |-> "pending"]
      [] req = "no_code" ->
            [closed |-> TRUE, settled |-> "rejected", err |-> "AuthFlowError"]

\* The request handler of the callback listener: whether it closed the
\* listener and its connections, and what it did to the promise login()
\* awaits.  "bad_url": new URL(req.url, REDIRECT_URI) throws; "other_path":
\* url.pathname is not '/', the handler returns without answering.
handleRequest(req) ==
    CASE req = "bad_url" ->
            [closed |-> TRUE, settled |-> "rejected", err |-> "ListenerError"]
      [] req = "other_path" ->
            [closed |-> FALSE, settled |-> "pending", err |-> "pending"]
      [] req = "code" ->
            [closed |-> TRUE, settled |-> "resolved", err |-> "pending"]
      [] req = "no_code" ->
            [closed |-> TRUE, settled |-> "rejected", err |-> "AuthFlowError"]

\* Mutant of loginExchange: the tokens are written before the answer of the
\* exchange is looked at.
loginExchange_saveFirst(files, profile, t, resp, probe) ==
    LET tokens == getToken(resp, t)
        saved == saveToken(files, profile, tokens)
    IN  IF resp.kind # "ok"
        THEN [err |-> "AuthFlowError", files |-> saved, client |-> Null,
              writes |-> 1, netCalls |-> 1, out |-> <<>>]
        ELSE IF probe = "profile_fails"
        THEN [err |-> "UpstreamError", files |-> saved, client |-> tokens,
              writes |-> 1, netCalls |-> 2, out |-> <<"Authentication successful">>]
        ELSE IF probe = "info_fails"
        THEN [err |-> "UpstreamError", files |-> saved, client |-> tokens,
              writes |-> 1, netCalls |-> 3,
              out |-> <<"Authentication successful", "Email">>]
        ELSE [err |-> "none", files |-> saved, client |-> tokens,
              writes |-> 1, netCalls |-> 3,
              out |-> <<"Authentication successful", "Email", "Scopes">>
                      \o expiryLine(tokens)]

\* The rest of login() once the promise resolved with a code.
loginExchange(files, profile, t, resp, probe) ==
    LET tokens == getToken(resp, t)
        saved == saveToken(files, profile, tokens)
    IN  IF resp.kind # "ok"
        THEN [err |-> "AuthFlowError", files |-> files, client |-> Null,
              writes |-> 0, netCalls |-> 1, out |-> <<>>]
        ELSE IF probe = "profile_fails"
        THEN [err |-> "UpstreamError", files |-> saved, client |-> tokens,
              writes |-> 1, netCalls |-> 2, out |-> <<"Authentication successful">>]
        ELSE IF probe = "info_fails"
        THEN [err |-> "UpstreamError", files |-> saved, client |-> tokens,
              writes |-> 1, netCalls |-> 3,
              out |-> <<"Authentication successful", "Email">>]
        ELSE [err |-> "none", files |-> saved, client |-> tokens,
              writes |-> 1, netCalls |-> 3,
              out |-> <<"Authentication successful", "Email", "Scopes">>
                      \o expiryLine(tokens)]

LoginCallback ==
    /\ pc = "login_wait"
    /\ listening
    /\ \E req \in Requests :
        LET h == handleRequest(req) IN
        /\ listening' = ~h.closed
        /\ \/ /\ h.settled = "pending"
              /\ last.requests < MaxRequests
              /\ last' = [last EXCEPT !.requests = @ + 1, !.request = req]
              /\ UNCHANGED <<tokenFile, pc>>
           \/ /\ h.settled = "rejected"
              /\ last' = [last EXCEPT !.requests = @ + 1, !.request = req,
                             !.err = h.err]
              /\ pc' = "idle"
              /\ UNCHANGED tokenFile
           \/ /\ h.settled = "resolved"
              /\ \E resp \in TokenResponses, probe \in Probes :
                  LET o == loginExchange(tokenFile, currentProfile, now, resp, probe) IN
                  /\ tokenFile' = o.files
                  /\ last' = [last EXCEPT !.requests = @ + 1, !.request = req,
                                 !.answer = resp.kind, !.err = o.err,
                                 !.client = o.client, !.writes = o.writes,
                                 !.netCalls = o.netCalls, !.out = o.out]
              /\ pc' = "idle"
    /\ UNCHANGED <<now, currentProfile, gmailClient, labelCache, lastLabel>>
    /\ UNCHANGED mailVars

\* The token file is damaged outside the program (JSON.parse will throw).
CorruptTokenFile ==
    /\ \E p \in Profiles :
        /\ tokenFile[p].state = "json"
        /\ tokenFile' = [tokenFile EXCEPT ![p] = CorruptFile]
    /\ last' = IF pc = "idle" THEN NoCall ELSE last
    /\ UNCHANGED <<now, currentProfile, pc, listening, gmailClient, labelCache,
                   lastLabel>>
    /\ UNCHANGED mailVars

Next ==
    \/ StartProcess
    \/ Tick
    \/ GetAuthClient
    \/ Logout
    \/ CheckStatus
    \/ LoginStart
    \/ LoginCallback
    \/ CorruptTokenFile

Spec == Init /\ [][Next]_vars

(***************************************************************************)
(* The label resolver's calls.  A process that resolves labels is read     *)
(* with a usable configuration or none, and the provider answers a refresh *)
(* with fresh credentials or refuses it.                                   *)
(***************************************************************************)
LabelAuthInputs ==
    {i \in AuthInputs :
        /\ i.cfg \in {"ok", "profile_missing"}
        /\ i.resp.kind # "network_error"
        /\ i.resp.kind = "ok" => i.resp.hasExpiry}

\* No client is built: nothing is read from disk and nothing is asked.
NoAuthInput == [cfg |-> "ok", resp |-> NoResponse]

\* The provider answers only the requests a call makes: the inputs of
\* getAuthClient() are drawn when the call builds the client, and the answer
\* to users.labels.list when the call fetches.
GetLabels ==
    /\ pc = "idle"
    /\ \E refresh \in BOOLEAN :
        LET call(i, list) == getLabels(refresh, labelCache, gmailClient, tokenFile,
                                       currentProfile, now, i.cfg, i.resp, list)
        IN
        \E i \in IF call(NoAuthInput, NoList).authCalls = 1
                 THEN LabelAuthInputs ELSE {NoAuthInput} :
        \E list \in IF call(i, NoList).fetches = 1 THEN ListResponses ELSE {NoList} :
            LET o == call(i, list) IN
            /\ labelCache' = o.cache
            /\ gmailClient' = o.client
            /\ tokenFile' = o.files
            /\ lastLabel' = [NoLabelCall EXCEPT !.op = "getLabels",
                                !.refresh = refresh, !.err = o.err, !.ret = o.ret,
                                !.fetches = o.fetches, !.authCalls = o.authCalls,
                                !.fetched = list]
    /\ last' = NoCall
    /\ UNCHANGED <<now, currentProfile, pc, listening>>
    /\ UNCHANGED mailVars

GetLabelIdByName ==
    /\ pc = "idle"
    /\ \E labelName \in LabelNames :
        LET call(i, list) == getLabelIdByName(labelName, labelCache, gmailClient,
                                              tokenFile, currentProfile, now,
                                              i.cfg, i.resp, list)
        IN
        \E i \in IF call(NoAuthInput, NoList).authCalls = 1
                 THEN LabelAuthInputs ELSE {NoAuthInput} :
        \E list \in IF call(i, NoList).fetches = 1 THEN ListResponses ELSE {NoList} :
            LET o == call(i, list) IN
            /\ labelCache' = o.cache
            /\ gmailClient' = o.client
            /\ tokenFile' = o.files
            /\ lastLabel' = [NoLabelCall EXCEPT !.op = "getLabelIdByName",
                                !.name = labelName, !.err = o.err, !.id = o.id,
                                !.available = o.available, !.fetches = o.fetches,
                                !.authCalls = o.authCalls, !.fetched = list]
    /\ last' = NoCall
    /\ UNCHANGED <<now, currentProfile, pc, listening>>
    /\ UNCHANGED mailVars

\* resetGmailClient()
ResetGmailClient ==
    /\ pc = "idle"
    /\ gmailClient' = Null
    /\ labelCache' = NullCache
    /\ last' = NoCall
    /\ lastLabel' = NoLabelCall
    /\ UNCHANGED <<now, tokenFile, currentProfile, pc, listening>>
    /\ UNCHANGED mailVars

\* The token file earlier runs may have left to a process that resolves
\* labels under some profile: none, a token still valid, or an expired one
\* with a refresh token.
InitLabels ==
    /\ now = 2
    /\ currentProfile \in Profiles
    /\ \E file \in
            {AbsentFile,
             JsonFile([access_token |-> "a1", refresh_token |-> "r1", expiry_date |-> 3]),
             JsonFile([access_token |-> "a1", refresh_token |-> "r1", expiry_date |-> 1])} :
        tokenFile = [p \in Profiles |-> IF p = currentProfile THEN file ELSE AbsentFile]
    /\ pc = "idle"
    /\ listening = FALSE
    /\ gmailClient = Null
    /\ labelCache = NullCache
    /\ last = NoCall
    /\ lastLabel = NoLabelCall
    /\ lastMail = NoMail
    /\ lastBody = NoBody
    /\ session = NoSession
    /\ race = NoRace

NextLabels ==
    \/ GetLabels
    \/ GetLabelIdByName
    \/ ResetGmailClient

LabelSpec == InitLabels /\ [][NextLabels]_vars

(***************************************************************************)
(* The send and reply commands.  A process runs one command and exits; it  *)
(* finds the token file earlier runs left (none, or a token still valid)   *)
(* and a usable configuration.                                             *)
(***************************************************************************)
SendEmail ==
    /\ pc = "idle"
    /\ \E options \in SendOptions, sent \in SendAnswers :
        LET o == sendEmail(options, gmailClient, tokenFile, currentProfile, now,
                           NoAuthInput.cfg, NoAuthInput.resp, sent)
        IN
        /\ lastMail' = [NoMail EXCEPT !.op = "sendEmail", !.draft = options.draft,
                           !.bodyTxt = options.bodyTxt, !.bodyHtml = options.bodyHtml,
                           !.attachments = options.attachments,
                           !.err = o.err, !.compose = o.compose,
                           !.requests = o.requests]
        /\ gmailClient' = o.client
    /\ pc' = "exited"
    /\ UNCHANGED <<now, tokenFile, currentProfile, listening, labelCache, last,
                   lastLabel, lastBody, session, race>>

\* The provider is asked for the original only by a call that holds the API
\* handle.
ReplyToEmail ==
    /\ pc = "idle"
    /\ \E options \in ReplyOptions, sent \in SendAnswers :
        \E got \in IF getGmailClient(gmailClient, tokenFile, currentProfile, now,
                                     NoAuthInput.cfg, NoAuthInput.resp).err = "none"
                   THEN GetAnswers ELSE {NoAnswer} :
        LET o == replyToEmail(options, gmailClient, tokenFile, currentProfile, now,
                              NoAuthInput.cfg, NoAuthInput.resp, got, sent)
        IN
        /\ lastMail' = [NoMail EXCEPT !.op = "replyToEmail", !.draft = options.draft,
                           !.quote = options.quote,
                           !.bodyTxt = options.bodyTxt, !.bodyHtml = options.bodyHtml,
                           !.attachments = options.attachments, !.got = got,
                           !.err = o.err, !.compose = o.compose,
                           !.requests = o.requests]
        /\ gmailClient' = o.client
    /\ pc' = "exited"
    /\ UNCHANGED <<now, tokenFile, currentProfile, listening, labelCache, last,
                   lastLabel, lastBody, session, race>>

InitMail ==
    /\ now = 2
    /\ currentProfile = "default"
    /\ \E file \in
            {AbsentFile,
             JsonFile([access_token |-> "a1", refresh_token |-> "r1", expiry_date |-> 3])} :
        tokenFile = [p \in Profiles |-> IF p = currentProfile THEN file ELSE AbsentFile]
    /\ pc = "idle"
    /\ listening = FALSE
    /\ gmailClient = Null
    /\ labelCache = NullCache
    /\ last = NoCall
    /\ lastLabel = NoLabelCall
    /\ lastMail = NoMail
    /\ lastBody = NoBody
    /\ session = NoSession
    /\ race = NoRace

NextMail ==
    \/ SendEmail
    \/ ReplyToEmail

MailSpec == InitMail /\ [][NextMail]_vars

(***************************************************************************)
(* The message codec by itself: getMessageBody() applied to a payload the  *)
(* provider returned.                                                      *)
(***************************************************************************)
GetMessageBody ==
    /\ pc = "idle"
    /\ lastBody.op = "none"
    /\ lastBody' = [op |-> "getMessageBody", payload |-> lastBody.payload,
                    body |-> getMessageBody(lastBody.payload)]
    /\ pc' = "exited"
    /\ UNCHANGED <<now, tokenFile, currentProfile, listening, gmailClient, labelCache,
                   last, lastLabel, lastMail, session, race>>

InitBody ==
    /\ now = 1
    /\ tokenFile = [p \in Profiles |-> AbsentFile]
    /\ currentProfile = "default"
    /\ pc = "idle"
    /\ listening = FALSE
    /\ gmailClient = Null
    /\ labelCache = NullCache
    /\ last = NoCall
    /\ lastLabel = NoLabelCall
    /\ lastMail = NoMail
    /\ \E n \in 1..MaxParts :
        \E heads \in [1..n -> PartHeads], depths \in DepthLists(n) :
            lastBody = [NoBody EXCEPT !.payload = BuildPart(heads, depths, 1)]
    /\ session = NoSession
    /\ race = NoRace

NextBody ==
    \/ GetMessageBody

BodySpec == InitBody /\ [][NextBody]_vars

(***************************************************************************)
(* The API session of one process: getGmailClient() is called again and    *)
(* again while time passes; resetGmailClient() is not called.              *)
(***************************************************************************)
GetGmailClient ==
    /\ pc = "idle"
    /\ session.builds <= MaxRequests
    /\ LET call(i) == getGmailClient(gmailClient, tokenFile, currentProfile, now,
                                     i.cfg, i.resp)
       IN
       \E i \in IF call(NoAuthInput).authCalls = 1 THEN AuthInputs ELSE {NoAuthInput} :
            LET o == call(i) IN
            /\ gmailClient' = o.client
            /\ tokenFile' = o.files
            /\ session' = [op |-> "getGmailClient",
                           err |-> o.err,
                           returned |-> IF o.err = "none" THEN o.client ELSE Null,
                           authCalls |-> o.authCalls,
                           builds |-> IF o.authCalls = 1 /\ o.err = "none"
                                      THEN session.builds + 1 ELSE session.builds]
    /\ last' = NoCall
    /\ UNCHANGED <<now, currentProfile, pc, listening, labelCache, lastLabel,
                   lastMail, lastBody, race>>

\* The tokens earlier logins may have left on disk.
SavedTokens ==
    [access_token : AccessTokens, refresh_token : RefreshTokens \cup {"none"},
     expiry_date : 0..MaxTime]

InitSession ==
    /\ now = 1
    /\ currentProfile = "default"
    /\ \E file \in {AbsentFile} \cup {JsonFile(token) : token \in SavedTokens} :
        tokenFile = [p \in Profiles |-> IF p = currentProfile THEN file ELSE AbsentFile]
    /\ pc = "idle"
    /\ listening = FALSE
    /\ gmailClient = Null
    /\ labelCache = NullCache
    /\ last = NoCall
    /\ lastLabel = NoLabelCall
    /\ lastMail = NoMail
    /\ lastBody = NoBody
    /\ session = NoSession
    /\ race = NoRace

NextSession ==
    \/ GetGmailClient
    \/ Tick

SessionSpec == InitSession /\ [][NextSession]_vars

(***************************************************************************)
(* Two login() runs of one profile in two processes.  Each process binds   *)
(* REDIRECT_PORT, waits for the callback, exchanges the code and calls     *)
(* saveToken(); writeFileSync() opens the file truncating it and then      *)
(* writes the text from position 0, and nothing orders the opens and       *)
(* writes of two processes.  The text of a file is a sequence of pieces.   *)
(***************************************************************************)
\* JSON.stringify(token): a key the token does not carry is left out.
stringify(token) ==
    <<"{", "access_token", token.access_token>>
    \o (IF token.refresh_token # "none"
        THEN <<"refresh_token", token.refresh_token>> ELSE <<>>)
    \o (IF token.expiry_date # 0
        THEN <<"expiry_date", ToString(token.expiry_date)>> ELSE <<>>)
    \o <<"}">>

\* The value JSON.parse gives to a key of an object text that is well formed;
\* absent when the text does not name the key.
valueOf(text, key, absent) ==
    LET at == {k \in 2..(Len(text) - 1) : k % 2 = 0 /\ text[k] = key}
    IN  IF at = {} THEN absent
        ELSE text[1 + CHOOSE k \in at : \A j \in at : j <= k]

\* JSON.parse(readFileSync(file)) as loadToken() sees it: the text of one
\* object, or a SyntaxError (an empty text and a text with a stray brace
\* included).
parse(text) ==
    LET wellFormed ==
            /\ Len(text) >= 2
            /\ text[1] = "{"
            /\ text[Len(text)] = "}"
            /\ Len(text) % 2 = 0
            /\ \A k \in 2..(Len(text) - 1) : text[k] \notin {"{", "}"}
        expiry == valueOf(text, "expiry_date", "0")
    IN  IF ~wellFormed THEN CorruptFile
        ELSE JsonFile([access_token |-> valueOf(text, "access_token", "none"),
                       refresh_token |-> valueOf(text, "refresh_token", "none"),
                       expiry_date |->
                            CHOOSE n \in 0..(MaxTime + TokenLifetime) : ToString(n) = expiry])

\* The token file as existsSync() and loadToken() see it.
readTokenFile(r) == IF ~r.exists THEN AbsentFile ELSE parse(r.bytes)

\* write(fd, data) at position 0 of a file that holds text: what lies beyond
\* the data stays.
writeAt0(text, data) == data \o SubSeq(text, Len(data) + 1, Len(text))

\* Mutant of listen: the port is bound although another process listens.
listen_reusePort(p, procs) == "listening"

\* server.listen(REDIRECT_PORT): the bind fails with EADDRINUSE while another
\* process listens on the port.
listen(p, procs) ==
    IF \E q \in DOMAIN procs : q # p /\ procs[q].listening
    THEN "EADDRINUSE" ELSE "listening"

\* One more event of the token file.
Event(p, kind) == [proc |-> p, kind |-> kind]

\* server.listen() of process p.  No 'error' listener is registered on the
\* server, so a failed bind is an unhandled 'error' event and ends the process.
RaceListen(p) ==
    /\ race.proc[p].pc = "start"
    /\ LET bound == listen(p, race.proc) = "listening" IN
        race' = [race EXCEPT !.proc[p].pc = IF bound THEN "waiting" ELSE "crashed",
                             !.proc[p].listening = bound]
    /\ UNCHANGED <<now, tokenFile, currentProfile, pc, listening, gmailClient,
                   labelCache, last, lastLabel, lastMail, lastBody, session>>

\* The listener of process p handles a request.
RaceRequest(p) ==
    /\ race.proc[p].pc = "waiting"
    /\ race.proc[p].listening
    /\ \E req \in Requests :
        LET h == handleRequest(req) IN
        race' = [race EXCEPT !.proc[p].listening = ~h.closed,
                             !.proc[p].pc = CASE h.settled = "pending" -> "waiting"
                                              [] h.settled = "rejected" -> "failed"
                                              [] h.settled = "resolved" -> "exchanging"]
    /\ UNCHANGED <<now, tokenFile, currentProfile, pc, listening, gmailClient,
                   labelCache, last, lastLabel, lastMail, lastBody, session>>

\* oauth2Client.getToken(code) of process p returns or throws.
RaceExchange(p) ==
    /\ race.proc[p].pc = "exchanging"
    /\ \E resp \in TokenResponses :
        race' = IF resp.kind = "ok"
                THEN [race EXCEPT !.proc[p].pc = "saving",
                                  !.proc[p].tokens = getToken(resp, now)]
                ELSE [race EXCEPT !.proc[p].pc = "failed"]
    /\ UNCHANGED <<now, tokenFile, currentProfile, pc, listening, gmailClient,
                   labelCache, last, lastLabel, lastMail, lastBody, session>>

\* saveToken() of process p, first half: writeFileSync opens the file, creating
\* or truncating it.
RaceOpen(p) ==
    /\ race.proc[p].pc = "saving"
    /\ LET r == [race EXCEPT !.proc[p].pc = "writing",
                             !.exists = TRUE,
                             !.bytes = <<>>,
                             !.events = Append(@, Event(p, "open"))]
       IN  /\ race' = r
           /\ tokenFile' = [tokenFile EXCEPT ![currentProfile] = readTokenFile(r)]
    /\ UNCHANGED <<now, currentProfile, pc, listening, gmailClient,
                   labelCache, last, lastLabel, lastMail, lastBody, session>>

\* saveToken() of process p, second half: the text is written and the file
\* closed.
RaceWrite(p) ==
    /\ race.proc[p].pc = "writing"
    /\ LET r == [race EXCEPT !.proc[p].pc = "done",
                             !.bytes = writeAt0(@, stringify(race.proc[p].tokens)),
                             !.events = Append(@, Event(p, "write"))]
       IN  /\ race' = r
           /\ tokenFile' = [tokenFile EXCEPT ![currentProfile] = readTokenFile(r)]
    /\ UNCHANGED <<now, currentProfile, pc, listening, gmailClient,
                   labelCache, last, lastLabel, lastMail, lastBody, session>>

InitRace ==
    /\ now = 1
    /\ tokenFile = [p \in Profiles |-> AbsentFile]
    /\ currentProfile = "default"
    /\ pc = "idle"
    /\ listening = FALSE
    /\ gmailClient = Null
    /\ labelCache = NullCache
    /\ last = NoCall
    /\ lastLabel = NoLabelCall
    /\ lastMail = NoMail
    /\ lastBody = NoBody
    /\ session = NoSession
    /\ race = NoRace

NextRace ==
    \/ \E p \in Procs : RaceListen(p)
    \/ \E p \in Procs : RaceRequest(p)
    \/ \E p \in Procs : RaceExchange(p)
    \/ \E p \in Procs : RaceOpen(p)
    \/ \E p \in Procs : RaceWrite(p)
    \/ Tick

RaceSpec == InitRace /\ [][NextRace]_vars

(***************************************************************************)
(* Properties of the Auth Manager, checked under Spec.  Only a call sets   *)
(* last.op to its name, and every other step of an idle process clears     *)
(* last: a step that ends with last.op = "getAuthClient" is a call of      *)
(* getAuthClient(), from the unprimed state to the primed one.             *)
(***************************************************************************)
\* The token the call loads for the active profile.
Tok == loadToken(tokenFile, currentProfile)

\* The token's expiry_date is in the past at time t.
Expired(token, t) == token # Null /\ token.expiry_date # 0 /\ token.expiry_date < t

Called(op) == last'.op = op

\* The authentication state of profile p, read from the token files.
AuthState(files, p, t) ==
    IF loadToken(files, p) = Null THEN "UNAUTHENTICATED"
    ELSE IF Expired(loadToken(files, p), t) THEN "AUTHENTICATED_expired"
    ELSE "AUTHENTICATED_valid"

\* C1: getAuthClient() on an expired token whose refresh token the provider
\* accepts makes exactly one refresh call, persists the refreshed token for the
\* active profile, returns a client holding it, and an immediately following
\* getAuthClient() succeeds (whatever the provider would answer then).
C1_RefreshOnExpiry ==
    [][(Called("getAuthClient") /\ Expired(Tok, now) /\ last'.cfg = "ok"
            /\ Tok.refresh_token # "none" /\ last'.answer = "ok")
        => /\ last'.err = "none"
           /\ last'.refreshCalls = 1
           /\ last'.client # Tok
           /\ ~Expired(last'.client, now)
           /\ tokenFile' = [tokenFile EXCEPT ![currentProfile] = JsonFile(last'.client)]
           /\ \A i \in AuthInputs : i.cfg = "ok" =>
                LET again == getAuthClient(tokenFile', currentProfile, now, i.cfg, i.resp)
                IN  again.err = "none" /\ again.client = last'.client]_vars

\* C1 witness: a getAuthClient() call has just refreshed and persisted a token.
C1_Witness ==
    /\ last.op = "getAuthClient"
    /\ last.answer = "ok"
    /\ last.err = "none"
    /\ last.refreshCalls = 1
    /\ tokenFile[currentProfile] = JsonFile(last.client)

\* C2: getAuthClient() on a token whose expiry_date is in the future makes no
\* refresh call and leaves the token files alone; and no getAuthClient() call
\* makes more than one refresh call.
C2_NoRefreshWhenValid ==
    [][Called("getAuthClient")
        => /\ last'.refreshCalls <= 1
           /\ (Tok # Null /\ Tok.expiry_date > now)
                => /\ last'.refreshCalls = 0
                   /\ last'.writes = 0
                   /\ last'.netCalls = 0
                   /\ tokenFile' = tokenFile]_vars

\* C2 witness: getAuthClient() has just returned a client for a token with an
\* expiry_date still in the future, without a refresh call.
C2_Witness ==
    /\ last.op = "getAuthClient"
    /\ last.err = "none"
    /\ last.refreshCalls = 0
    /\ last.client.expiry_date > now
    /\ tokenFile[currentProfile] = JsonFile(last.client)

\* C3: when the token is expired and the refresh call fails, getAuthClient()
\* fails with TokenRefreshError and the token files are as before the call.
C3_FailedRefreshKeepsToken ==
    [][(Called("getAuthClient") /\ Expired(Tok, now) /\ last'.cfg = "ok"
            /\ last'.answer # "ok")
        => /\ last'.err = "TokenRefreshError"
           /\ last'.refreshCalls = 1
           /\ last'.writes = 0
           /\ tokenFile' = tokenFile]_vars

\* C3 witness: getAuthClient() has just failed on a refresh the provider
\* rejected, and the expired token with its refresh token is still on disk.
C3_Witness ==
    /\ last.op = "getAuthClient"
    /\ last.err = "TokenRefreshError"
    /\ last.answer = "invalid_grant"
    /\ Expired(Tok, now)
    /\ Tok.refresh_token # "none"

\* A step of login() that persisted the exchanged token.
LoginSaved == Called("login") /\ last'.writes = 1 /\ last.writes = 0

C5_TokenUsability ==
    [][/\ (Called("getAuthClient") /\ Tok # Null /\ Tok.refresh_token # "none"
              /\ last'.cfg = "ok" /\ last'.answer \in {"ok", "none"})
            => /\ last'.err = "none"
               /\ last'.client.refresh_token = Tok.refresh_token
               /\ loadToken(tokenFile', currentProfile).refresh_token = Tok.refresh_token
               /\ ~Expired(loadToken(tokenFile', currentProfile), now)
       /\ (Called("getAuthClient") /\ Expired(Tok, now) /\ Tok.refresh_token = "none")
            => /\ last'.err # "none"
               /\ tokenFile' = tokenFile
       /\ \A p \in Profiles :
            LET t == loadToken(tokenFile, p) IN
            (Expired(t, now) /\ t.refresh_token = "none" /\ ~CorruptTokenFile)
                => \/ loadToken(tokenFile', p) = t /\ Expired(t, now')
                   \/ LoginSaved /\ p = currentProfile
                   \/ Called("logout") /\ p = currentProfile]_vars

\* C5 witness: getAuthClient() has just failed on an expired token that
\* carries no refresh token.
C5_Witness ==
    /\ last.op = "getAuthClient"
    /\ last.err = "TokenRefreshError"
    /\ Expired(Tok, now)
    /\ Tok.refresh_token = "none"

\* C5 second witness state: a token with a refresh token was refreshed and
\* still carries it.
C5_WitnessRefreshed ==
    /\ last.op = "getAuthClient"
    /\ last.refreshCalls = 1
    /\ last.err = "none"
    /\ Tok.refresh_token # "none"

\* C6: logout() never raises; an existing token file of the active profile is
\* deleted and 'Logged out successfully' reported, otherwise nothing changes
\* and 'Not currently logged in' is reported; afterwards loadToken() returns
\* no token and a second logout() is a no-op.
C6_Logout ==
    [][Called("logout")
        => /\ last'.err = "none"
           /\ IF existsSync(tokenFile[currentProfile])
              THEN /\ tokenFile' = [tokenFile EXCEPT ![currentProfile] = AbsentFile]
                   /\ last'.out = <<"Logged out successfully">>
              ELSE /\ tokenFile' = tokenFile
                   /\ last'.out = <<"Not currently logged in">>
           /\ loadToken(tokenFile', currentProfile) = Null
           /\ logout(tokenFile', currentProfile).err = "none"
           /\ logout(tokenFile', currentProfile).files = tokenFile'
           /\ logout(tokenFile', currentProfile).out = <<"Not currently logged in">>]_vars

\* C6 witness: logout() has just run with no token file present.
C6_Witness ==
    /\ last.op = "logout"
    /\ last.deletes = 0
    /\ last.out = <<"Not currently logged in">>

\* C6 second witness state: logout() has just deleted a token file.
C6_WitnessDeleted ==
    /\ last.op = "logout"
    /\ last.deletes = 1
    /\ tokenFile[currentProfile] = AbsentFile

\* C7: with no token persisted for the active profile (no file, or a file that
\* does not parse) and a valid configuration, getAuthClient() fails with
\* NotAuthenticated, makes no refresh call and writes no token file.
C7_NotAuthenticated ==
    [][(Called("getAuthClient") /\ Tok = Null /\ last'.cfg = "ok")
        => /\ last'.err = "NotAuthenticated"
           /\ last'.refreshCalls = 0
           /\ last'.writes = 0
           /\ last'.netCalls = 0
           /\ tokenFile' = tokenFile]_vars

\* C7 witness: getAuthClient() has just failed with NotAuthenticated on a
\* token file that does not parse.
C7_Witness ==
    /\ last.op = "getAuthClient"
    /\ last.err = "NotAuthenticated"
    /\ tokenFile[currentProfile] = CorruptFile

\* C8: checkStatus() never propagates an error; with no token it reports
\* 'Not authenticated' and makes no network call; with a token, any failure
\* (client construction, refresh, profile fetch, token-info fetch) ends in the
\* report 'Token expired or invalid'.
C8_CheckStatusNeverThrows ==
    [][Called("checkStatus")
        => /\ last'.err = "none"
           /\ Tok = Null
                => /\ last'.out = <<"Status: Not authenticated", "Run gmail auth login">>
                   /\ last'.netCalls = 0
                   /\ last'.refreshCalls = 0
                   /\ tokenFile' = tokenFile
           /\ Tok # Null
                => /\ (last'.cfg # "ok" \/ (Expired(Tok, now) /\ last'.answer # "ok"))
                        => last'.inner # "none"
                   /\ last'.inner # "none"
                        => \E k \in DOMAIN last'.out :
                                last'.out[k] = "Status: Token expired or invalid"
                   /\ last'.inner = "none"
                        => /\ last'.out[1] = "Status: Authenticated"
                           /\ \A k \in DOMAIN last'.out :
                                last'.out[k] # "Status: Token expired or invalid"]_vars

\* C8 witness: checkStatus() has just reported 'Token expired or invalid'
\* after the token-info fetch failed on an authenticated client.
C8_Witness ==
    /\ last.op = "checkStatus"
    /\ last.err = "none"
    /\ last.inner = "UpstreamError"
    /\ last.out = <<"Status: Authenticated", "Email",
                    "Status: Token expired or invalid", "Run gmail auth login">>

\* The token files with those of the profiles other than p taken away.
OnlyFileOf(p) == [q \in Profiles |-> IF q = p THEN tokenFile[q] ELSE AbsentFile]

\* C18: the active profile changes only when a process starts, before any call
\* of that process, and stays as set during the process; no step of login,
\* logout, checkStatus or getAuthClient changes the token file of a profile
\* other than the active one, and what these calls read and return does not
\* depend on the token files of the other profiles.
C18_ProfileIsolation ==
    /\ [](\A i \in StatusInputs :
            LET mine == OnlyFileOf(currentProfile)
                a == getAuthClient(tokenFile, currentProfile, now, i.cfg, i.resp)
                b == getAuthClient(mine, currentProfile, now, i.cfg, i.resp)
                c == checkStatus(tokenFile, currentProfile, now, i.cfg, i.resp, i.probe)
                d == checkStatus(mine, currentProfile, now, i.cfg, i.resp, i.probe)
            IN  /\ a.err = b.err /\ a.client = b.client
                /\ a.files[currentProfile] = b.files[currentProfile]
                /\ c.out = d.out
                /\ c.files[currentProfile] = d.files[currentProfile]
                /\ logout(tokenFile, currentProfile).out = logout(mine, currentProfile).out)
    /\ [][/\ currentProfile' # currentProfile
                => (StartProcess /\ last' = NoCall /\ pc' = "idle")
          /\ last'.op # "none" => currentProfile' = currentProfile
          /\ ~CorruptTokenFile
                => \A p \in Profiles \ {currentProfile} : tokenFile'[p] = tokenFile[p]
          /\ StartProcess => tokenFile' = tokenFile]_vars

\* C18 witness: the process of profile work has just logged in and written its
\* token file, while the token file of profile default, logged out before, is
\* still absent.
C18_Witness ==
    /\ currentProfile = "work"
    /\ last.op = "login"
    /\ last.writes = 1
    /\ tokenFile["work"].state = "json"
    /\ tokenFile["default"] = AbsentFile

\* C18, a deletion: profile work has just logged out and the token of profile
\* default is still on disk.
C18_WitnessLogout ==
    /\ currentProfile = "work"
    /\ last.op = "logout"
    /\ last.deletes = 1
    /\ tokenFile["work"] = AbsentFile
    /\ tokenFile["default"].state = "json"

\* A step in which the listener's handler ran for one more request.
Handled == last.op = "login" /\ last'.op = "login" /\ last'.requests = last.requests + 1

C19_WitnessStillWaiting ==
    /\ pc = "login_wait"
    /\ listening
    /\ last.requests = 0
    /\ now = MaxTime

\* C19, an error while handling: the listener is closed and login has failed.
C19_WitnessHandlerError ==
    /\ last.op = "login"
    /\ last.request = "bad_url"
    /\ last.err = "ListenerError"
    /\ ~listening
    /\ pc = "idle"

\* C20: a login() that got no code, or whose exchange of the code failed, fails
\* with the AuthFlowError and leaves every token file as it was; no step of
\* login() before that writes one; a login() whose exchange succeeded has
\* replaced the token file of the active profile by the exchanged tokens and
\* nothing else.
C20_LoginPersistence ==
    [][(last'.op = "login" /\ ~CorruptTokenFile) =>
          /\ last'.err = "pending" => tokenFile' = tokenFile
          /\ last'.request # "code" => (tokenFile' = tokenFile /\ last'.writes = 0)
          /\ last'.request = "no_code" => last'.err = "AuthFlowError"
          /\ (last'.request = "code" /\ last'.answer # "ok")
                => (last'.err = "AuthFlowError" /\ tokenFile' = tokenFile
                    /\ last'.writes = 0)
          /\ (last'.request = "code" /\ last'.answer = "ok")
                => /\ last'.writes = 1
                   /\ last'.err \in {"none", "UpstreamError"}
                   /\ last'.client \in {getToken(r, now) : r \in TokenResponses}
                   /\ tokenFile' = [tokenFile EXCEPT
                                        ![currentProfile] = JsonFile(last'.client)]]_vars

\* C20 witness: the exchange failed for a profile that was logged in, and its
\* token file still holds the earlier token.
C20_Witness ==
    /\ last.op = "login"
    /\ last.request = "code"
    /\ last.answer # "ok"
    /\ last.err = "AuthFlowError"
    /\ last.writes = 0
    /\ tokenFile[currentProfile].state = "json"

\* C20, success over an earlier token: the file holds the exchanged tokens,
\* which carry no refresh token, and nothing of an earlier login.
C20_WitnessReplaced ==
    /\ last.op = "login"
    /\ last.err = "none"
    /\ last.writes = 1
    /\ last.client.refresh_token = "none"
    /\ tokenFile[currentProfile] = JsonFile(last.client)
    /\ now > 1

\* C20, no code: login failed and nothing was written.
C20_WitnessNoCode ==
    /\ last.op = "login"
    /\ last.request = "no_code"
    /\ last.err = "AuthFlowError"
    /\ tokenFile[currentProfile] = AbsentFile

(***************************************************************************)
(* Properties of the label resolver, checked under LabelSpec.  Every step  *)
(* of LabelSpec writes lastLabel: a step that ends with lastLabel.op =     *)
(* "getLabels" is a call of getLabels(), from the unprimed state to the    *)
(* primed one, and labelCache in a state is the cache the call recorded in *)
(* lastLabel left behind.                                                  *)
(***************************************************************************)
\* name occurs in text as a run of consecutive characters.
Occurs(name, text) ==
    \E p \in 1..(Len(text) - Len(name) + 1) :
        SubSeq(text, p, p + Len(name) - 1) = name

\* The cache a successful fetch of the answer list leaves behind.
Replaced(list) ==
    [set |-> TRUE, labels |-> IF list.kind = "no_labels" THEN <<>> ELSE list.labels]

\* C9: getLabelIdByName(name) returns the id of the first label of the cache
\* whose name is exactly name (never one that differs in case or only contains
\* name); when no label has that name it fails with LabelNotFound, and the
\* message names every label of the cache.
C9_ExactFirstMatch ==
    (lastLabel.op = "getLabelIdByName" /\ lastLabel.err \in {"none", "LabelNotFound"})
        => /\ labelCache.set
           /\ lastLabel.err = "none"
                => \E k \in DOMAIN labelCache.labels :
                    /\ labelCache.labels[k].name = lastLabel.name
                    /\ labelCache.labels[k].id = lastLabel.id
                    /\ \A j \in 1..(k - 1) : labelCache.labels[j].name # lastLabel.name
           /\ lastLabel.err = "LabelNotFound"
                => /\ \A k \in DOMAIN labelCache.labels :
                        /\ labelCache.labels[k].name # lastLabel.name
                        /\ Occurs(labelCache.labels[k].name, lastLabel.available)
                   /\ lastLabel.id = "none"

\* C9 witness: "a" was resolved to the second label of the cache, the first
\* one being named "A" and carrying another id.
C9_Witness ==
    /\ lastLabel.op = "getLabelIdByName"
    /\ lastLabel.err = "none"
    /\ lastLabel.name = <<"a">>
    /\ Len(labelCache.labels) = 2
    /\ labelCache.labels[1].name = <<"A">>
    /\ labelCache.labels[2].name = <<"a">>
    /\ labelCache.labels[1].id # labelCache.labels[2].id
    /\ lastLabel.id = labelCache.labels[2].id

\* C9, the failing case reached: "a" was not found in a cache holding "A" and
\* "ab", and the message names both.
C9_WitnessNotFound ==
    /\ lastLabel.op = "getLabelIdByName"
    /\ lastLabel.err = "LabelNotFound"
    /\ lastLabel.name = <<"a">>
    /\ Len(labelCache.labels) = 2
    /\ labelCache.labels[1].name = <<"A">>
    /\ labelCache.labels[2].name = <<"a", "b">>
    /\ lastLabel.available = <<"A", ",", " ", "a", "b">>

\* C10: a call fetches the labels only when the cache is null (never populated
\* in a run of getLabels/getLabelIdByName calls) or getLabels is called with
\* refresh set; such a call, once it holds the API handle, makes exactly one
\* fetch, and a fetch that succeeds replaces the whole cache by the fetched
\* list; every other call leaves the cache as it was.  getLabelIdByName never
\* forces a refresh: on a populated cache (an empty array included) it makes no
\* fetch.
C10_LabelCache ==
    [][LET c == lastLabel'
           wanted == ~labelCache.set \/ (c.op = "getLabels" /\ c.refresh)
       IN  c.op \in {"getLabels", "getLabelIdByName"}
            => /\ c.fetches \in {0, 1}
               /\ c.fetches = 1 => wanted
               /\ (wanted /\ gmailClient' # Null) => c.fetches = 1
               /\ (c.fetches = 1 /\ c.fetched.kind # "error")
                    => /\ labelCache' = Replaced(c.fetched)
                       /\ c.op = "getLabels" => (c.err = "none" /\ c.ret = labelCache'.labels)
               /\ (c.fetches = 0 \/ c.fetched.kind = "error")
                    => labelCache' = labelCache
               /\ (c.op = "getLabels" /\ c.fetches = 0 /\ c.err = "none")
                    => c.ret = labelCache.labels
               /\ (c.op = "getLabelIdByName" /\ labelCache.set)
                    => (c.fetches = 0 /\ c.authCalls = 0)]_vars

\* C10 witness: getLabels(true), called on a handle an earlier call had
\* built, fetched once and left a cache holding exactly the one fetched label.
C10_Witness ==
    /\ lastLabel.op = "getLabels"
    /\ lastLabel.refresh
    /\ lastLabel.err = "none"
    /\ lastLabel.fetches = 1
    /\ lastLabel.authCalls = 0
    /\ Len(lastLabel.fetched.labels) = 1
    /\ labelCache = [set |-> TRUE, labels |-> lastLabel.fetched.labels]

\* C10, the resolver on a populated cache: getLabelIdByName answered from a
\* cache that is an empty array, without a fetch.
C10_WitnessNoFetch ==
    /\ lastLabel.op = "getLabelIdByName"
    /\ lastLabel.err = "LabelNotFound"
    /\ lastLabel.fetches = 0
    /\ lastLabel.authCalls = 0
    /\ labelCache = [set |-> TRUE, labels |-> <<>>]

(***************************************************************************)
(* Properties of the MIME composer and the send/reply orchestrator,        *)
(* checked under MailSpec.  lastMail holds what the call was given and     *)
(* what it did.                                                            *)
(***************************************************************************)
\* The places of the send and draft requests among the requests of the call.
Writes ==
    {k \in DOMAIN lastMail.requests :
        lastMail.requests[k].api \in {"drafts.create", "messages.send"}}

\* The sum of the sizes of the files of a list.
RECURSIVE SumOfSizes(_)
SumOfSizes(files) ==
    IF files = <<>> THEN 0 ELSE Head(files).size + SumOfSizes(Tail(files))

\* C11: whenever buildMimeMessage() runs, the first path of the list that
\* leads to no file or to a file of more than 35 MB decides the error,
\* AttachmentNotFound or AttachmentTooLarge (so a list with a missing file and
\* no oversized one fails with AttachmentNotFound, and one with an oversized
\* file and no missing one with AttachmentTooLarge, whatever the total); a
\* file of exactly 35 MB is accepted; with every file present and within the
\* limit the call fails with MessageTooLarge exactly when the sizes sum to
\* more than 35 MB, whatever the bodies are.
C11_AttachmentSizes ==
    lastMail.compose # "not_reached" =>
        LET att == lastMail.attachments
            missing == {k \in DOMAIN att : ~att[k].exists}
            oversized == {k \in DOMAIN att :
                            att[k].exists /\ att[k].size > 35 * 1024 * 1024}
            first == CHOOSE k \in missing \cup oversized :
                        \A j \in missing \cup oversized : k <= j
        IN  /\ (missing # {} /\ oversized = {})
                => lastMail.compose = "AttachmentNotFound"
            /\ (oversized # {} /\ missing = {})
                => lastMail.compose = "AttachmentTooLarge"
            /\ (missing # {} /\ oversized # {})
                => lastMail.compose = IF first \in missing THEN "AttachmentNotFound"
                                      ELSE "AttachmentTooLarge"
            /\ (missing = {} /\ oversized = {})
                => lastMail.compose = IF SumOfSizes(att) > 35 * 1024 * 1024
                                      THEN "MessageTooLarge" ELSE "none"
            /\ lastMail.compose # "none"
                => (lastMail.err = lastMail.compose /\ Writes = {})

\* C11 witness: two files, each within the limit, together beyond it, were
\* refused with MessageTooLarge.
C11_Witness ==
    /\ lastMail.op = "sendEmail"
    /\ lastMail.compose = "MessageTooLarge"
    /\ Len(lastMail.attachments) = 2
    /\ \A k \in 1..2 : lastMail.attachments[k].exists
                       /\ lastMail.attachments[k].size <= 35 * 1024 * 1024

\* C11, the per-file failure before the total: an oversized file after one
\* within the limit was refused with AttachmentTooLarge.
C11_WitnessTooLarge ==
    /\ lastMail.compose = "AttachmentTooLarge"
    /\ Len(lastMail.attachments) = 2
    /\ lastMail.attachments[1].size = 1
    /\ lastMail.attachments[2].size = 35 * 1024 * 1024 + 1

\* C11, the limit and the body: a message with a text body and one file of
\* exactly 35 MB was built and sent.
C11_WitnessAtLimit ==
    /\ lastMail.compose = "none"
    /\ lastMail.err = "none"
    /\ lastMail.bodyTxt # <<>>
    /\ Len(lastMail.attachments) = 1
    /\ lastMail.attachments[1].size = 35 * 1024 * 1024

\* The original message replyToEmail() fetched, and the message of its
\* send or draft request.
Original == lastMail.got.message
Written == lastMail.requests[Len(lastMail.requests)].message
Replied == lastMail.op = "replyToEmail" /\ lastMail.compose = "none"

\* The value of the first header of the original under one of the given
\* spellings of its name; <<>> when there is none.
ValueOf(names) ==
    LET hits == {k \in DOMAIN Original.headers : Original.headers[k].name \in names}
    IN  IF hits = {} THEN <<>>
        ELSE Original.headers[CHOOSE k \in hits : \A j \in hits : k <= j].value

\* C12: a reply to an original with Message-ID M carries In-Reply-To = M, and
\* References = M when the original has no References (or empty ones),
\* References = R, a space, M when it has References R: R is kept as a prefix.
C12_ReplyThreading ==
    Replied =>
        LET M == ValueOf({"Message-ID", "Message-Id"})
            R == ValueOf({"References"})
        IN  /\ M # <<>>
            /\ Written.headers.inReplyTo = M
            /\ R = <<>> => Written.headers.references = M
            /\ R # <<>> =>
                /\ Written.headers.references = R \o <<" ">> \o M
                /\ SubSeq(Written.headers.references, 1, Len(R)) = R

\* C12 witness: a reply to <abc@x>, which referred to <a@x> <b@x>, went out
\* with References <a@x> <b@x> <abc@x>.
C12_Witness ==
    /\ Replied
    /\ lastMail.err = "none"
    /\ Written.headers.inReplyTo = <<"<abc@x>">>
    /\ Written.headers.references = <<"<a@x>", " ", "<b@x>", " ", "<abc@x>">>

\* C12, no prior chain: References and In-Reply-To are both <abc@x>.
C12_WitnessNoChain ==
    /\ Replied
    /\ ValueOf({"References"}) = <<>>
    /\ Written.headers.inReplyTo = <<"<abc@x>">>
    /\ Written.headers.references = <<"<abc@x>">>

\* C13: the subject of a reply is the original subject S when S starts with
\* "Re:" (in this case of letters), and "Re: " followed by S otherwise; the
\* reply subject of a reply subject is that subject again.
C13_ReplySubject ==
    Replied =>
        LET S == ValueOf({"Subject"})
            prefixed == Len(S) >= 3 /\ S[1] = "R" /\ S[2] = "e" /\ S[3] = ":"
        IN  /\ prefixed => Written.subject = S
            /\ ~prefixed => Written.subject = <<"R", "e", ":", " ">> \o S
            /\ replySubject([found |-> TRUE, value |-> Written.subject]) = Written.subject

\* C13 witness: the subject "RE: x" was answered under "Re: RE: x".
C13_Witness ==
    /\ Replied
    /\ ValueOf({"Subject"}) = <<"R", "E", ":", " ", "x">>
    /\ Written.subject = <<"R", "e", ":", " ", "R", "E", ":", " ", "x">>

\* C13, the prefix already there: "Re: x" was answered under "Re: x".
C13_WitnessKept ==
    /\ Replied
    /\ ValueOf({"Subject"}) = <<"R", "e", ":", " ", "x">>
    /\ Written.subject = <<"R", "e", ":", " ", "x">>

\* C14: when the fetched original has no Message-ID header (or an empty one),
\* replyToEmail() fails with MissingMessageId, and the fetch of the original
\* is the only request it made.
C14_MissingMessageId ==
    (lastMail.op = "replyToEmail" /\ lastMail.got.kind = "ok"
        /\ ValueOf({"Message-ID", "Message-Id"}) = <<>>)
    => /\ lastMail.err = "MissingMessageId"
       /\ Len(lastMail.requests) = 1
       /\ lastMail.requests[1].api = "messages.get"

\* C14 witness: a reply to an original without any Message-ID header failed
\* with MissingMessageId.
C14_Witness ==
    /\ lastMail.op = "replyToEmail"
    /\ lastMail.err = "MissingMessageId"
    /\ \A k \in DOMAIN Original.headers :
            Original.headers[k].name \notin {"Message-ID", "Message-Id"}

\* The text with "> " put before its first character and after each of its
\* line feeds.
RECURSIVE MarkedAfterFeeds(_)
MarkedAfterFeeds(text) ==
    IF text = <<>> THEN <<>>
    ELSE IF Head(text) = "\n" THEN <<"\n", "> ">> \o MarkedAfterFeeds(Tail(text))
    ELSE <<Head(text)>> \o MarkedAfterFeeds(Tail(text))

\* The plain text and the HTML of the original of the model, by its payload.
OriginalText ==
    IF Original.payload.mimeType = "text/html" THEN <<>> ELSE <<"a", "\n", "b">>

OriginalHtml ==
    IF Original.payload.mimeType = "text/plain" THEN <<>> ELSE <<"<", "b", ">">>

\* C16: with quote set, a plain body given, and a plain body in the original,
\* the reply's text is the given body, an empty line, 'On {date}, {from}
\* wrote:', and the original text with "> " before each of its lines; with
\* quote set, an HTML body given, and HTML in the original, the reply's HTML is
\* the given HTML, two breaks, and the original HTML in a blockquote; the two
\* are decided separately, and in every other case (quote not set, or that
\* body type missing on either side) the body is passed on as given.
C16_Quoting ==
    Replied =>
        /\ Written.text =
                IF lastMail.quote /\ lastMail.bodyTxt # <<>> /\ OriginalText # <<>>
                THEN lastMail.bodyTxt
                     \o <<"\n", "\n", "On ">> \o ValueOf({"Date"}) \o <<", ">>
                     \o ValueOf({"From"}) \o <<" wrote:", "\n">>
                     \o <<"> ">> \o MarkedAfterFeeds(OriginalText)
                ELSE lastMail.bodyTxt
        /\ Written.html =
                IF lastMail.quote /\ lastMail.bodyHtml # <<>> /\ OriginalHtml # <<>>
                THEN lastMail.bodyHtml \o <<"<br><br><blockquote>">> \o OriginalHtml
                     \o <<"</blockquote>">>
                ELSE lastMail.bodyHtml

\* C16 witness: a reply quoting the plain original "a\nb", itself without
\* HTML, ends with "> a", line feed, "> b", and its HTML is as given.
C16_Witness ==
    /\ Replied
    /\ lastMail.quote
    /\ lastMail.bodyHtml # <<>>
    /\ OriginalHtml = <<>>
    /\ Written.html = lastMail.bodyHtml
    /\ Written.text = lastMail.bodyTxt
            \o <<"\n", "\n", "On ", "Mon", ", ", "Ann ", "<", "ann@x", ">", " wrote:", "\n",
                 "> ", "a", "\n", "> ", "b">>

\* C16, quoting not requested: both bodies went out as given although the
\* original has both.
C16_WitnessNoQuote ==
    /\ Replied
    /\ ~lastMail.quote
    /\ lastMail.bodyTxt # <<>> /\ lastMail.bodyHtml # <<>>
    /\ OriginalText # <<>> /\ OriginalHtml # <<>>
    /\ Written.text = lastMail.bodyTxt
    /\ Written.html = lastMail.bodyHtml

\* C17: a sendEmail() or replyToEmail() call that succeeds has made exactly
\* one send or draft request, a draft creation when draft is set and a send
\* otherwise; no call makes more than one; a call that fails on an attachment
\* or on a missing Message-ID makes none; the request of a reply carries the
\* thread id of the original it fetched, that of a new message none.
C17_OutboundCalls ==
    lastMail.op \in {"sendEmail", "replyToEmail"} =>
        /\ Cardinality(Writes) <= 1
        /\ lastMail.err = "none" => Cardinality(Writes) = 1
        /\ lastMail.err \in {"AttachmentNotFound", "AttachmentTooLarge",
                             "MessageTooLarge", "MissingMessageId"}
                => Writes = {}
        /\ \A k \in Writes :
            /\ k = Len(lastMail.requests)
            /\ lastMail.requests[k].api =
                    IF lastMail.draft THEN "drafts.create" ELSE "messages.send"
            /\ lastMail.requests[k].threadId =
                    IF lastMail.op = "replyToEmail" THEN Original.threadId ELSE "none"
            /\ lastMail.op = "replyToEmail" => Original.threadId \in ThreadIds

\* C17 witness: a reply draft was created in thread t2, the thread of the
\* original, by the only write of the call.
C17_Witness ==
    /\ lastMail.op = "replyToEmail"
    /\ lastMail.err = "none"
    /\ lastMail.draft
    /\ Original.threadId = "t2"
    /\ Len(lastMail.requests) = 2
    /\ lastMail.requests[2].api = "drafts.create"
    /\ lastMail.requests[2].threadId = "t2"

\* C17, a new message: it was sent by one request without a thread id.
C17_WitnessSend ==
    /\ lastMail.op = "sendEmail"
    /\ lastMail.err = "none"
    /\ ~lastMail.draft
    /\ lastMail.requests = <<Request("messages.send", "none", Written)>>

\* C17, a failure while composing a reply: only the original was fetched.
C17_WitnessComposeFails ==
    /\ lastMail.op = "replyToEmail"
    /\ lastMail.err = "AttachmentTooLarge"
    /\ Writes = {}
    /\ Len(lastMail.requests) = 1

(***************************************************************************)
(* Properties of two concurrent login() runs, checked under RaceSpec.      *)
(***************************************************************************)
\* Every process has ended, and at least one has written the token file.
AllEnded ==
    /\ \A p \in Procs : race.proc[p].pc \in {"done", "failed", "crashed"}
    /\ \E k \in DOMAIN race.events : race.events[k].kind = "write"

\* The process whose write was the last one.
LastWriter ==
    LET writes == {k \in DOMAIN race.events : race.events[k].kind = "write"}
    IN  race.events[CHOOSE k \in writes : \A j \in writes : j <= k].proc

\* The text of the token a process obtained.
TextOf(p) == stringify(race.proc[p].tokens)

\* Some process opened the file while another had it open for writing.
Overlapped ==
    \E k \in DOMAIN race.events :
        /\ race.events[k].kind = "open"
        /\ k < Len(race.events)
        /\ race.events[k + 1].proc # race.events[k].proc

\* C21 as stated: once the processes have ended, the token file holds the
\* token of the last writer in full.
C21_LastWriterInFull ==
    AllEnded => tokenFile[currentProfile] = JsonFile(race.proc[LastWriter].tokens)

\* C21 amended: at most one process listens on the callback port at a time; a
\* process that binds while another listens fails to bind, ends there, and
\* never gets a code nor opens or writes the token file; once the processes
\* have ended the token file holds the token of the last writer in full
\* whenever the two saves did not overlap or the last writer's text is no
\* shorter than the other's; when the saves overlapped and the last writer's
\* text is shorter, the file holds that text followed by the rest of the
\* other's, which loadToken() cannot parse.  The file never parses to any
\* token but the last writer's.
C21_LoginRace ==
    /\ [](\A p, q \in Procs :
            (race.proc[p].listening /\ race.proc[q].listening) => p = q)
    /\ [](\A p \in Procs :
            race.proc[p].pc = "crashed"
                => /\ ~race.proc[p].listening
                   /\ race.proc[p].tokens = Null
                   /\ \A k \in DOMAIN race.events : race.events[k].proc # p)
    /\ [](AllEnded =>
            LET w == LastWriter
                others == {p \in Procs \ {w} : race.proc[p].pc = "done"}
            IN  /\ tokenFile[currentProfile] \in
                        {JsonFile(race.proc[w].tokens), CorruptFile}
                /\ (~Overlapped \/ \A p \in others : Len(TextOf(p)) <= Len(TextOf(w)))
                        => /\ race.bytes = TextOf(w)
                           /\ tokenFile[currentProfile] = JsonFile(race.proc[w].tokens)
                /\ (Overlapped /\ \E p \in others : Len(TextOf(p)) > Len(TextOf(w)))
                        => /\ \E p \in others :
                                race.bytes = TextOf(w)
                                    \o SubSeq(TextOf(p), Len(TextOf(w)) + 1, Len(TextOf(p)))
                           /\ tokenFile[currentProfile] = CorruptFile)
    /\ [][\A p \in Procs :
            /\ race.proc[p].pc = "crashed" => race'.proc[p] = race.proc[p]
            /\ (race.proc[p].pc = "start" /\ race'.proc[p].pc # "start")
                    => (race'.proc[p].pc = "crashed"
                            <=> \E q \in Procs \ {p} : race.proc[q].listening)]_vars

\* C21 witness: both processes saved a token, the saves overlapped, and the
\* file holds the short text of the last writer followed by the rest of the
\* other's; loadToken() finds no token.
C21_Witness ==
    /\ AllEnded
    /\ Overlapped
    /\ \A p \in Procs : race.proc[p].pc = "done"
    /\ race.bytes # TextOf(LastWriter)
    /\ SubSeq(race.bytes, 1, Len(TextOf(LastWriter))) = TextOf(LastWriter)
    /\ loadToken(tokenFile, currentProfile) = Null

\* C21, the second bind: process 2 failed to bind while process 1 listened, and
\* process 1 went on to save its token.
C21_WitnessBindFails ==
    /\ race.proc[2].pc = "crashed"
    /\ race.proc[1].pc = "done"
    /\ race.events = <<Event(1, "open"), Event(1, "write")>>
    /\ tokenFile[currentProfile] = JsonFile(race.proc[1].tokens)

\* C21, one save after the other: the file holds the token of process 2, the
\* last writer, and nothing of the longer token process 1 wrote before.
C21_WitnessLastWins ==
    /\ race.events = <<Event(1, "open"), Event(1, "write"),
                       Event(2, "open"), Event(2, "write")>>
    /\ Len(TextOf(1)) > Len(TextOf(2))
    /\ race.bytes = TextOf(2)
    /\ tokenFile[currentProfile] = JsonFile(race.proc[2].tokens)

\* C21, overlapping saves that end well: the last writer's text is the longer
\* one and is on disk in full.
C21_WitnessOverlapInFull ==
    /\ AllEnded
    /\ Overlapped
    /\ \A p \in Procs : race.proc[p].pc = "done"
    /\ \E p \in Procs : Len(TextOf(p)) < Len(TextOf(LastWriter))
    /\ race.bytes = TextOf(LastWriter)

(***************************************************************************)
(* Properties of the API session, checked under SessionSpec.               *)
(***************************************************************************)
\* A step in which a getGmailClient() call returned.
SessionCall == session'.op = "getGmailClient" /\ now' = now

\* C22: in one process getAuthClient() succeeds at most once, and exactly when
\* the handle is then cached; the cached handle never changes, and every
\* successful getGmailClient() returns it; a call whose getAuthClient() fails
\* leaves no handle, so that the next call calls getAuthClient() again; a
\* call that finds the handle cached does not call getAuthClient(), and so
\* neither reads nor rewrites the token file, whatever the time.
C22_ApiSession ==
    /\ [](session.builds <= 1)
    /\ [](gmailClient # Null <=> session.builds = 1)
    /\ [][/\ gmailClient # Null => gmailClient' = gmailClient
          /\ SessionCall =>
                /\ gmailClient = Null => session'.authCalls = 1
                /\ gmailClient # Null
                        => /\ session'.authCalls = 0
                           /\ session'.err = "none"
                           /\ session'.returned = gmailClient
                           /\ tokenFile' = tokenFile
                /\ session'.err # "none"
                        => (gmailClient' = Null /\ session'.builds = session.builds)
                /\ session'.err = "none"
                        => (session'.returned # Null /\ session'.returned = gmailClient')]_vars

\* C22 witness: a call returned the cached handle without calling
\* getAuthClient() although the token on disk has expired in the meantime.
C22_Witness ==
    /\ session.op = "getGmailClient"
    /\ session.err = "none"
    /\ session.authCalls = 0
    /\ session.builds = 1
    /\ session.returned = gmailClient
    /\ needsRefresh(loadToken(tokenFile, currentProfile), now)

\* C22, a failed construction: getAuthClient() was called and failed, and no
\* handle is cached.
C22_WitnessFailed ==
    /\ session.op = "getGmailClient"
    /\ session.err # "none"
    /\ session.authCalls = 1
    /\ session.builds = 0
    /\ gmailClient = Null

\* C22, construction after a failure: the handle was built at a later time
\* than the process started, from a token that needed a refresh then.
C22_WitnessBuiltLater ==
    /\ session.op = "getGmailClient"
    /\ session.err = "none"
    /\ session.authCalls = 1
    /\ session.builds = 1
    /\ now = MaxTime
    /\ gmailClient.expiry_date = now + TokenLifetime

(***************************************************************************)
(* Properties of the message codec, checked under BodySpec.                *)
(***************************************************************************)
\* The parts of a payload tree, parent before children, children from left
\* to right.
RECURSIVE Preorder(_)
Preorder(part) ==
    LET below[k \in 0..Len(part.parts)] ==
            IF k = 0 THEN <<>> ELSE below[k - 1] \o Preorder(part.parts[k])
    IN  <<[mimeType |-> part.mimeType, data |-> part.data]>> \o below[Len(part.parts)]

\* The text the inline data of the model's parts stand for.
Decoded(data) ==
    CASE data = <<"Y", "Q">> -> <<"a">>
      [] data = <<"Y", "g">> -> <<"b">>
      [] data = <<"Y", "Q", "p", "i">> -> <<"a", "\n", "b">>
      [] data = <<"P", "G", "I", "-">> -> <<"<", "b", ">">>
      [] OTHER -> <<>>

\* The decoded data of the last part, in that order, of the given media type
\* that carries inline data; the empty string when there is none.
LastBodyOf(mimeType, payload) ==
    LET order == Preorder(payload)
        hits == {k \in DOMAIN order :
                    order[k].mimeType = mimeType /\ order[k].data # <<>>}
    IN  IF hits = {} THEN <<>>
        ELSE Decoded(order[CHOOSE k \in hits : \A j \in hits : j <= k].data)

\* C15: getMessageBody returns as text (as html) the decoded data of the last
\* part, in depth-first order with the payload itself first, whose media type
\* is exactly text/plain (text/html) and which carries inline data -- the data
\* of that one part, never several joined -- and the empty string when there
\* is no such part.
C15_LastPartWins ==
    lastBody.op = "getMessageBody" =>
        /\ lastBody.body.text = LastBodyOf("text/plain", lastBody.payload)
        /\ lastBody.body.html = LastBodyOf("text/html", lastBody.payload)

\* C15 witness: of two text/plain parts, "a" nested in the first child and "b"
\* the second child, "b" was returned: the last in depth-first order, not the
\* deepest and not "ab".
C15_Witness ==
    /\ lastBody.op = "getMessageBody"
    /\ lastBody.payload =
        Part("multipart/mixed", <<>>,
             <<Part("multipart/mixed", <<>>, <<Part("text/plain", <<"Y", "Q">>, <<>>)>>),
               Part("text/plain", <<"Y", "g">>, <<>>)>>)
    /\ lastBody.body = [text |-> <<"b">>, html |-> <<>>]

\* C15, the payload itself first: a text/plain payload "b" with a text/plain
\* child "a" and an HTML child gave text "a" and html "<b>".
C15_WitnessTopLevel ==
    /\ lastBody.op = "getMessageBody"
    /\ lastBody.payload =
        Part("text/plain", <<"Y", "g">>,
             <<Part("text/plain", <<"Y", "Q">>, <<>>),
               Part("text/html", <<"P", "G", "I", "-">>, <<>>)>>)
    /\ lastBody.body = [text |-> <<"a">>, html |-> <<"<", "b", ">">>]

====
